---------------------------- MODULE Spec2Model ----------------------------
(***************************************************************************)
(* A model of the docking core of idock: ligand construction               *)
(* (ligand::ligand), the conformation evaluator (ligand::evaluate,         *)
(* ligand::compose_result), the result pool and monte_carlo_task.          *)
(*                                                                         *)
(* Real numbers are fixed-point integers: a length, an energy or a         *)
(* gradient component x is held as the integer x * Scale.  Orientations    *)
(* are the 24 unit quaternions with rational components; angles are rounded *)
(* to whole multiples of pi, for which array.cpp's sin/cos formulas are    *)
(* exact.  C++ indices are kept 0-based; At(s, i) reads element i.         *)
(***************************************************************************)
EXTENDS Integers, Sequences, FiniteSets, TLC

\* ------------------------------------------------------------------ bounds

MaxLines == 5
\* the longest input file read by the constructor, in lines

MaxAtoms == 3
\* the most ATOM/HETATM lines in one input file

MaxSerial == MaxAtoms
\* BRANCH/ENDBRANCH serial numbers are drawn from 1..MaxSerial

\* ------------------------------------------------------- numeric substrate

Scale == 10
\* fixed-point units per 1.0

Uninit == -1
\* the value of a field the constructor never wrote (read only as UB)

At(s, i) == s[i + 1]
\* s[i] of a C++ vector

SetAt(s, i, v) == [s EXCEPT ![i + 1] = v]

Abs(x) == IF x < 0 THEN -x ELSE x

Min(a, b) == IF a <= b THEN a ELSE b

Max(a, b) == IF a >= b THEN a ELSE b

DivT(a, b) == IF a >= 0 THEN a \div b ELSE -((-a) \div b)
\* integer division rounding toward zero, b > 0

RECURSIVE SumTo(_, _)
SumTo(f, n) == IF n = 0 THEN 0 ELSE f[n] + SumTo(f, n - 1)
\* f[1] + ... + f[n]

zero3 == <<0, 0, 0>>

VAdd(a, b) == <<a[1] + b[1], a[2] + b[2], a[3] + b[3]>>
\* array.cpp operator+

VSub(a, b) == <<a[1] - b[1], a[2] - b[2], a[3] - b[3]>>
\* array.cpp operator-

VScaleInt(s, a) == <<s * a[1], s * a[2], s * a[3]>>
\* array.cpp operator*(float, array<float,3>) for an integral factor

cross_product(a, b) ==
    << a[2] * b[3] - a[3] * b[2],
       a[3] * b[1] - a[1] * b[3],
       a[1] * b[2] - a[2] * b[1] >>

Dot(a, b) == a[1] * b[1] + a[2] * b[2] + a[3] * b[3]

distance_sqr(a, b) == Dot(VSub(a, b), VSub(a, b))

norm_sqr(a) == Dot(a, a)

Sign(x) == IF x > 0 THEN 1 ELSE IF x < 0 THEN -1 ELSE 0

normalize3(a) ==
    IF Cardinality({d \in 1..3 : a[d] # 0}) = 1
    THEN <<Sign(a[1]), Sign(a[2]), Sign(a[3])>>
    ELSE zero3
\* (x - y).normalize() for an axis-aligned vector, as a direction with
\* components in {-1, 0, 1}; a zero or oblique vector has no such direction

\* Unit quaternions <<w, x, y, z>> are held doubled, as <<2w, 2x, 2y, 2z>>: the
\* 24 units with components in {0, 1, -1} or all in {1/2, -1/2} are closed under
\* array.cpp's product, and their rotation matrices are integral.

qt_identity == <<2, 0, 0, 0>>

QMul(a, b) ==
    << (a[1] * b[1] - a[2] * b[2] - a[3] * b[3] - a[4] * b[4]) \div 2,
       (a[1] * b[2] + a[2] * b[1] + a[3] * b[4] - a[4] * b[3]) \div 2,
       (a[1] * b[3] - a[2] * b[4] + a[3] * b[1] + a[4] * b[2]) \div 2,
       (a[1] * b[4] + a[2] * b[3] - a[3] * b[2] + a[4] * b[1]) \div 2 >>
\* array.cpp operator*(array<float,4>, array<float,4>)

qtn4_to_mat3(a) ==
    LET ww == a[1] * a[1]
        wx == a[1] * a[2]
        wy == a[1] * a[3]
        wz == a[1] * a[4]
        xx == a[2] * a[2]
        xy == a[2] * a[3]
        xz == a[2] * a[4]
        yy == a[3] * a[3]
        yz == a[3] * a[4]
        zz == a[4] * a[4]
    IN << (ww + xx - yy - zz) \div 4, (2 * (xy - wz)) \div 4, (2 * (wy + xz)) \div 4,
          (2 * (wz + xy)) \div 4, (ww - xx + yy - zz) \div 4, (2 * (yz - wx)) \div 4,
          (2 * (xz - wy)) \div 4, (2 * (wx + yz)) \div 4, (ww - xx - yy + zz) \div 4 >>

normalized4(a) == a[1] * a[1] + a[2] * a[2] + a[3] * a[3] + a[4] * a[4] = 4
\* array.cpp normalized(array<float,4>): the squared norm is 1

MatVec(m, v) ==
    << m[1] * v[1] + m[2] * v[2] + m[3] * v[3],
       m[4] * v[1] + m[5] * v[2] + m[6] * v[3],
       m[7] * v[1] + m[8] * v[2] + m[9] * v[3] >>

PiUnits == 31
\* pi in fixed-point units (3.1 at Scale 10)

HalfTurns(angle) ==
    IF angle >= 0 THEN (2 * angle + PiUnits) \div (2 * PiUnits)
    ELSE -((2 * (-angle) + PiUnits) \div (2 * PiUnits))
\* the whole multiple of pi nearest to a fixed-point angle

CosHalf(k) == CASE k % 4 = 0 -> 1 [] k % 4 = 2 -> -1 [] OTHER -> 0
\* cos(k * pi / 2)

SinHalf(k) == CASE k % 4 = 1 -> 1 [] k % 4 = 3 -> -1 [] OTHER -> 0
\* sin(k * pi / 2)

vec4_to_qtn4(axis, angle) ==
    LET k == HalfTurns(angle)
        c == CosHalf(k)
        s == SinHalf(k)
    IN <<2 * c, 2 * s * axis[1], 2 * s * axis[2], 2 * s * axis[3]>>

mr(x, y) == ((y * (y + 1)) \div 2) + x
\* triangular_matrix_restrictive_index, x <= y

mp(x, y) == IF x <= y THEN mr(x, y) ELSE mr(y, x)
\* triangular_matrix_permissive_index

\* ------------------------------------------------------------------- atoms

AdNames == {"C", "N", "HD"}
\* the AutoDock4 atom types the model reads; any other string is unsupported

AD_TYPE_SIZE == "AD_TYPE_SIZE"

parse_ad_type_string(str) == IF str \in AdNames THEN str ELSE AD_TYPE_SIZE

atom(coordinate, ad) ==
    [coordinate |-> coordinate, ad |-> ad, donor |-> FALSE, hydrophobic |-> (ad = "C")]

is_hydrogen(a) == a.ad \in {"H", "HD"}

is_hetero(a) == a.ad \notin {"H", "HD", "C"}

covalent_radius(a) == CASE a.ad = "C" -> 77 [] a.ad = "N" -> 75 [] OTHER -> 37
\* in hundredths of an Angstrom

is_neighbor(a, b) ==
    LET r == covalent_radius(a) + covalent_radius(b)
    IN 10000 * distance_sqr(a.coordinate, b.coordinate) < r * r * Scale * Scale

donorize(a) == [a EXCEPT !.donor = TRUE]

dehydrophobicize(a) == [a EXCEPT !.hydrophobic = FALSE]

xs(a) ==
    CASE a.ad = "C" -> IF a.hydrophobic THEN 0 ELSE 1
      [] a.ad = "N" -> IF a.donor THEN 3 ELSE 2
      [] OTHER -> 4
\* the XScore type: C_H, C_P, N_P, N_D, and one type for the rest

\* -------------------------------------------------- ligand::ligand, parsing

frame(parent, rotorX, habegin, hybegin) ==
    [parent |-> parent, rotorX |-> rotorX, rotorY |-> Uninit,
     habegin |-> habegin, haend |-> Uninit, hybegin |-> hybegin, hyend |-> Uninit,
     active |-> TRUE,
     parent_rotorY_to_current_rotorY |-> zero3,
     parent_rotorX_to_current_rotorY |-> zero3]

EmptyLigand ==
    [lines |-> <<>>,
     frames |-> <<[frame(0, 0, 0, 0) EXCEPT !.rotorY = 0]>>,
     heavy_atoms |-> <<>>, hydrogens |-> <<>>,
     num_active_torsions |-> 0, num_frames |-> 0, num_torsions |-> 0,
     num_heavy_atoms |-> 0, num_hydrogens |-> 0,
     flexibility_penalty_factor |-> 0,
     interacting_pairs |-> <<>>]
\* the ligand object when parsing starts (ligand.cpp lines 25-39)

StartParse(asserts) ==
    [lig |-> EmptyLigand, numbers |-> <<>>, current |-> 0, num_lines |-> 0,
     status |-> "parsing", assertions |-> asserts]
\* the constructor's object and locals before the first getline

AtomLine(serial, ad, coordinate) ==
    [kind |-> "ATOM", n |-> serial, ad |-> ad, coordinate |-> coordinate, size |-> 79]
\* an ATOM line that runs to column 79: a two-character type in columns 78-79,
\* or a one-character type in column 78 and a blank after it

ShortAtomLine(serial, ad, coordinate) ==
    [kind |-> "ATOM", n |-> serial, ad |-> ad, coordinate |-> coordinate, size |-> 78]
\* an ATOM line that ends with its one-character type in column 78: line[78] is
\* the string's terminator, not a space, and substr(77, 2) is that character

BranchLine(x) == [kind |-> "BRANCH", n |-> x, ad |-> "", coordinate |-> zero3, size |-> 14]

EndBranchLine(y) ==
    [kind |-> "ENDBRANCH", n |-> y, ad |-> "", coordinate |-> zero3, size |-> 17]

RootLine == [kind |-> "ROOT", n |-> 0, ad |-> "", coordinate |-> zero3, size |-> 4]

RemarkLine == [kind |-> "REMARK", n |-> 0, ad |-> "", coordinate |-> zero3, size |-> 6]

UBOutcomes == [crash : BOOLEAN, off : {0}]
\* what an out-of-bounds serial search can do: the process dies, or the loop
\* matches x in the memory `off` elements past the end of the vector

FindSerial(numbers, begin, x) ==
    LET hits == {i \in begin .. Len(numbers) - 1 : At(numbers, i) = x}
    IN IF hits = {} THEN Uninit ELSE CHOOSE i \in hits : \A j \in hits : i <= j
\* for (i = begin; true; ++i) if (numbers[i] == x): the first match inside the vector,
\* Uninit when the loop leaves the vector

RECURSIVE DonorScan(_, _, _, _)
DonorScan(heavy, a, i, begin) ==
    IF i <= begin THEN heavy
    ELSE LET b == At(heavy, i - 1)
         IN IF ~is_hetero(b) THEN DonorScan(heavy, a, i - 1, begin)
            ELSE IF is_neighbor(a, b) THEN SetAt(heavy, i - 1, donorize(b))
            ELSE DonorScan(heavy, a, i - 1, begin)
\* for (i = heavy_atoms.size(); i > f->habegin;) { b = heavy_atoms[--i]; ... }

ParseAtom(ps, line) ==
    LET L == ps.lig
        f == At(L.frames, ps.current)
        pushed == [L EXCEPT !.lines = Append(@, line)]
        ad == parse_ad_type_string(line.ad)
        a == atom(line.coordinate, ad)
    IN IF ps.assertions /\ ps.current # Len(L.frames) - 1
       THEN [ps EXCEPT !.num_lines = @ + 1, !.status = "assert_failed"]
       ELSE IF ad = AD_TYPE_SIZE
       THEN [ps EXCEPT !.num_lines = @ + 1, !.lig = pushed, !.status = "parse_error"]
       ELSE IF is_hydrogen(a)
       THEN [ps EXCEPT !.num_lines = @ + 1,
                       !.lig = [pushed EXCEPT
                           !.hydrogens = Append(@, a),
                           !.heavy_atoms =
                               IF ad = "HD"
                               THEN DonorScan(@, a, Len(@), f.habegin)
                               ELSE @]]
       ELSE [ps EXCEPT !.num_lines = @ + 1,
                       !.lig = [pushed EXCEPT !.heavy_atoms = Append(@, a)],
                       !.numbers = Append(@, line.n)]
\* ligand.cpp lines 49-91

ParseBranch_SelfParent(ps, line, ub) ==
    LET L == ps.lig
        f == At(L.frames, ps.current)
        found == FindSerial(ps.numbers, f.habegin, line.n)
        i == IF found # Uninit THEN found ELSE Len(ps.numbers) + ub.off
        fresh == frame(Len(L.frames), i, Len(L.heavy_atoms), Len(L.hydrogens))
        pushed == Append(L.frames, fresh)
        cur == Len(pushed) - 1
        closed == SetAt(pushed, cur - 1,
                        [At(pushed, cur - 1) EXCEPT !.haend = fresh.habegin,
                                                    !.hyend = fresh.hybegin])
    IN IF found = Uninit /\ ub.crash
       THEN [ps EXCEPT !.num_lines = @ + 1,
                       !.lig = [L EXCEPT !.lines = Append(@, line)],
                       !.status = "crashed"]
       ELSE [ps EXCEPT !.num_lines = @ + 1,
                       !.lig = [L EXCEPT !.lines = Append(@, line), !.frames = closed],
                       !.current = cur]
\* the new frame's parent read after the frame was pushed: frames.size() - 1

ParseBranch(ps, line, ub) ==
    LET L == ps.lig
        f == At(L.frames, ps.current)
        found == FindSerial(ps.numbers, f.habegin, line.n)
        i == IF found # Uninit THEN found ELSE Len(ps.numbers) + ub.off
        fresh == frame(ps.current, i, Len(L.heavy_atoms), Len(L.hydrogens))
        pushed == Append(L.frames, fresh)
        cur == Len(pushed) - 1
        closed == SetAt(pushed, cur - 1,
                        [At(pushed, cur - 1) EXCEPT !.haend = fresh.habegin,
                                                    !.hyend = fresh.hybegin])
    IN IF found = Uninit /\ ub.crash
       THEN [ps EXCEPT !.num_lines = @ + 1,
                       !.lig = [L EXCEPT !.lines = Append(@, line)],
                       !.status = "crashed"]
       ELSE [ps EXCEPT !.num_lines = @ + 1,
                       !.lig = [L EXCEPT !.lines = Append(@, line), !.frames = closed],
                       !.current = cur]
\* ligand.cpp lines 92-120

EmptyBranch_Off(f, heavy_atoms) == f.habegin > Len(heavy_atoms)
\* the emptiness test with the wrong comparison: it never fires

EmptyBranch(f, heavy_atoms) == f.habegin = Len(heavy_atoms)
\* ligand.cpp line 128: f->habegin == heavy_atoms.size()

ParseEndBranch(ps, line, ub) ==
    LET L == ps.lig
        f == At(L.frames, ps.current)
        pushed == [L EXCEPT !.lines = Append(@, line)]
        found == FindSerial(ps.numbers, f.habegin, line.n)
        i == IF found # Uninit THEN found ELSE Len(ps.numbers) + ub.off
        inactive == (ps.current = Len(L.frames) - 1)
                    /\ (f.habegin + 1 = Len(L.heavy_atoms))
        g == [f EXCEPT !.rotorY = i, !.active = IF inactive THEN FALSE ELSE @]
    IN IF EmptyBranch(f, L.heavy_atoms)
       THEN [ps EXCEPT !.num_lines = @ + 1, !.lig = pushed, !.status = "parse_error"]
       ELSE IF found = Uninit /\ ub.crash
       THEN [ps EXCEPT !.num_lines = @ + 1, !.lig = pushed, !.status = "crashed"]
       ELSE [ps EXCEPT !.num_lines = @ + 1,
                       !.lig = [pushed EXCEPT
                           !.frames = SetAt(@, ps.current, g),
                           !.num_active_torsions = IF inactive THEN @ ELSE @ + 1],
                       !.current = f.parent]
\* ligand.cpp lines 121-160

ParseKept(ps, line) ==
    [ps EXCEPT !.num_lines = @ + 1, !.lig = [ps.lig EXCEPT !.lines = Append(@, line)]]
\* ligand.cpp lines 161-165: ROOT, ENDROOT, TORSDOF

ParseIgnored(ps) == [ps EXCEPT !.num_lines = @ + 1]
\* a line with another prefix (REMARK, TER, ...): only ++num_lines

\* --------------------------------------- ligand::ligand, after the last line

ValidAtomIndex(L, i) == 0 <= i /\ i < Len(L.heavy_atoms)

HeavyAt(L, i) == IF ValidAtomIndex(L, i) THEN At(L.heavy_atoms, i) ELSE atom(zero3, "C")
\* heavy_atoms[i]; an index outside the vector reads whatever lies there

FrameRange(f) == {i \in f.habegin .. f.haend - 1 : TRUE}

ReadsOutside(L) ==
    \E k \in 0 .. Len(L.frames) - 1 :
        \/ ~ValidAtomIndex(L, At(L.frames, k).rotorY)
        \/ k > 0 /\ ~ValidAtomIndex(L, At(L.frames, k).rotorX)
\* the passes below index heavy_atoms with rotorX and rotorY unchecked

Dehydrophobicized(L) ==
    LET F(k) == At(L.frames, k)
        inner == {j \in 0 .. Len(L.heavy_atoms) - 1 :
                    \E k \in 0 .. Len(L.frames) - 1 :
                        /\ j \in FrameRange(F(k))
                        /\ ~is_hetero(HeavyAt(L, j))
                        /\ \E i \in FrameRange(F(k)) :
                              /\ is_hetero(HeavyAt(L, i))
                              /\ is_neighbor(HeavyAt(L, i), HeavyAt(L, j))}
        joint == {j \in 0 .. Len(L.heavy_atoms) - 1 :
                    \E k \in 1 .. Len(L.frames) - 1 :
                        \/ /\ j = F(k).rotorX
                           /\ is_hetero(HeavyAt(L, F(k).rotorY))
                           /\ ~is_hetero(HeavyAt(L, F(k).rotorX))
                        \/ /\ j = F(k).rotorY
                           /\ is_hetero(HeavyAt(L, F(k).rotorX))
                           /\ ~is_hetero(HeavyAt(L, F(k).rotorY))}
    IN [j \in 1 .. Len(L.heavy_atoms) |->
          IF (j - 1) \in inner \cup joint
          THEN dehydrophobicize(L.heavy_atoms[j])
          ELSE L.heavy_atoms[j]]
\* ligand.cpp lines 187-216

RotorGeometry(L) ==
    [k \in 1 .. Len(L.frames) |->
        IF k = 1 THEN L.frames[k]
        ELSE LET f == L.frames[k]
                 p == At(L.frames, f.parent)
             IN [f EXCEPT
                  !.parent_rotorY_to_current_rotorY =
                      VSub(HeavyAt(L, f.rotorY).coordinate, HeavyAt(L, p.rotorY).coordinate),
                  !.parent_rotorX_to_current_rotorY =
                      normalize3(VSub(HeavyAt(L, f.rotorY).coordinate,
                                      HeavyAt(L, f.rotorX).coordinate))]]
\* ligand.cpp lines 218-225

Bonds(L) ==
    LET F(k) == At(L.frames, k)
    IN [i \in 0 .. Len(L.heavy_atoms) - 1 |->
          {j \in 0 .. Len(L.heavy_atoms) - 1 :
              \/ /\ j # i
                 /\ \E k \in 0 .. Len(L.frames) - 1 :
                       /\ i \in FrameRange(F(k))
                       /\ j \in FrameRange(F(k))
                       /\ is_neighbor(HeavyAt(L, i), HeavyAt(L, j))
              \/ \E k \in 1 .. Len(L.frames) - 1 :
                    \/ i = F(k).rotorY /\ j = F(k).rotorX
                    \/ i = F(k).rotorX /\ j = F(k).rotorY}]
\* ligand.cpp lines 227-256: bonds[i] as the set of its elements

Hop(bonds, from) == UNION {bonds[b] : b \in from}

NeighborsWithin3_TwoHops(bonds, i) == bonds[i] \cup Hop(bonds, bonds[i])
\* the neighbour search without its innermost loop

NeighborsWithin3(bonds, i) ==
    LET n1 == bonds[i]
        n2 == Hop(bonds, n1)
        n3 == Hop(bonds, n2)
    IN n1 \cup n2 \cup n3
\* ligand.cpp lines 267-297

PairVisits_RotorYOnly(L, bonds) ==
    LET F(k) == At(L.frames, k)
        nf == Len(L.frames)
    IN {v \in (0 .. nf - 1) \X (0 .. Len(L.heavy_atoms) - 1)
              \X (0 .. nf - 1) \X (0 .. Len(L.heavy_atoms) - 1) :
           /\ v[1] < v[3]
           /\ v[2] \in FrameRange(F(v[1]))
           /\ v[4] \in FrameRange(F(v[3]))
           /\ ~ \/ v[1] = F(v[3]).parent /\ v[4] = F(v[3]).rotorY
                \/ v[4] \in NeighborsWithin3(bonds, v[2])}
\* the test of line 305 without (i == f2.rotorX)

PairVisits(L, bonds) ==
    LET F(k) == At(L.frames, k)
        nf == Len(L.frames)
    IN {v \in (0 .. nf - 1) \X (0 .. Len(L.heavy_atoms) - 1)
              \X (0 .. nf - 1) \X (0 .. Len(L.heavy_atoms) - 1) :
           /\ v[1] < v[3]
           /\ v[2] \in FrameRange(F(v[1]))
           /\ v[4] \in FrameRange(F(v[3]))
           /\ ~ \/ /\ v[1] = F(v[3]).parent
                   /\ (v[4] = F(v[3]).rotorY \/ v[2] = F(v[3]).rotorX)
                \/ v[4] \in NeighborsWithin3(bonds, v[2])}
\* the <<k1, i, k2, j>> for which line 307 is reached

VisitBefore(a, b) ==
    \/ a[1] < b[1]
    \/ a[1] = b[1] /\ a[2] < b[2]
    \/ a[1] = b[1] /\ a[2] = b[2] /\ a[3] < b[3]
    \/ a[1] = b[1] /\ a[2] = b[2] /\ a[3] = b[3] /\ a[4] < b[4]
\* the order in which the loops of lines 262-303 visit <<k1, i, k2, j>>

RECURSIVE InLoopOrder(_)
InLoopOrder(S) ==
    IF S = {} THEN <<>>
    ELSE LET v == CHOOSE a \in S : \A b \in S \ {a} : VisitBefore(a, b)
         IN <<v>> \o InLoopOrder(S \ {v})

interacting_pair(i1, i2, type_pair_index) ==
    [i1 |-> i1, i2 |-> i2, type_pair_index |-> type_pair_index]

InteractingPairs(L) ==
    LET visits == InLoopOrder(PairVisits(L, Bonds(L)))
    IN [n \in 1 .. Len(visits) |->
          interacting_pair(visits[n][2], visits[n][4],
                           mp(xs(HeavyAt(L, visits[n][2])), xs(HeavyAt(L, visits[n][4]))))]
\* ligand.cpp lines 258-314

RECURSIVE Relativize(_, _)
Relativize(L, k) ==
    IF k = Len(L.frames) THEN L
    ELSE LET f == At(L.frames, k)
             origin == HeavyAt(L, f.rotorY).coordinate
             moved == [L EXCEPT
                 !.heavy_atoms = [i \in 1 .. Len(@) |->
                     IF f.habegin <= i - 1 /\ i - 1 < f.haend
                     THEN [@[i] EXCEPT !.coordinate = VSub(@, origin)]
                     ELSE @[i]],
                 !.hydrogens = [i \in 1 .. Len(@) |->
                     IF f.hybegin <= i - 1 /\ i - 1 < f.hyend
                     THEN [@[i] EXCEPT !.coordinate = VSub(@, origin)]
                     ELSE @[i]]]
         IN Relativize(moved, k + 1)
\* ligand.cpp lines 316-329, frame k onwards

FlexibilityPenaltyFactor(num_torsions, num_active_torsions) ==
    IF num_torsions >= num_active_torsions
    THEN (Scale * 100000) \div (100000 + 2923 * (num_active_torsions + num_torsions))
    ELSE 0
\* 1 / (1 + 0.05846 * (nat + 0.5 * (nt - nat))); nt - nat is a size_t and wraps
\* to about 2^64 when nat > nt, which makes the factor 0 at this resolution

FinishParse(ps, ub) ==
    LET L0 == ps.lig
        nf == Len(L0.frames)
        nha == Len(L0.heavy_atoms)
        nhy == Len(L0.hydrogens)
        asserted ==
            /\ Len(L0.lines) <= ps.num_lines
            /\ ps.current = 0
            /\ nf >= 1
            /\ nf - 1 >= L0.num_active_torsions
            /\ nha + nhy + 2 * (nf - 1) + 3 <= ps.num_lines
        L1 == [L0 EXCEPT
                 !.num_frames = nf, !.num_torsions = nf - 1,
                 !.flexibility_penalty_factor =
                     FlexibilityPenaltyFactor(nf - 1, L0.num_active_torsions),
                 !.num_heavy_atoms = nha, !.num_hydrogens = nhy,
                 !.frames = SetAt(@, nf - 1,
                                  [At(@, nf - 1) EXCEPT !.haend = nha, !.hyend = nhy])]
        L2 == [L1 EXCEPT !.heavy_atoms = Dehydrophobicized(L1)]
        L3 == [L2 EXCEPT !.frames = RotorGeometry(L2)]
        L4 == [L3 EXCEPT !.interacting_pairs = InteractingPairs(L3)]
        L5 == Relativize(L4, 0)
    IN IF ps.assertions /\ ~asserted
       THEN [ps EXCEPT !.status = "assert_failed"]
       ELSE IF ReadsOutside(L1) /\ ub.crash
       THEN [ps EXCEPT !.lig = L1, !.status = "crashed"]
       ELSE [ps EXCEPT !.lig = L5, !.status = "constructed"]
\* ligand.cpp lines 167-329

ParseLine(ps, line, ub) ==
    CASE line.kind = "ATOM" -> ParseAtom(ps, line)
      [] line.kind = "BRANCH" -> ParseBranch(ps, line, ub)
      [] line.kind = "ENDBRANCH" -> ParseEndBranch(ps, line, ub)
      [] line.kind = "ROOT" -> ParseKept(ps, line)
      [] OTHER -> ParseIgnored(ps)
\* the if / else if chain of lines 49-165

NoUB == [crash |-> TRUE, off |-> 0]

RECURSIVE ParseAll(_, _)
ParseAll(ps, input) ==
    IF ps.status # "parsing" THEN ps
    ELSE IF input = <<>> THEN FinishParse(ps, NoUB)
    ELSE ParseAll(ParseLine(ps, Head(input), NoUB), Tail(input))
\* while (getline(in, line)) ... and the passes after it

Construct(input) == ParseAll(StartParse(FALSE), input).lig
\* ligand::ligand on a whole input, for inputs without undefined behaviour

\* ------------------------------------------------- box, grid maps, scoring

NumGrids == 3
\* grids per dimension of the search box

Granularity == Scale
\* the grid size, 1.0, in fixed-point units

BoxLen == NumGrids * Granularity

corner1 == zero3

corner2 == <<BoxLen, BoxLen, BoxLen>>

within(c) == \A d \in 1 .. 3 : corner1[d] <= c[d] /\ c[d] < corner2[d]
\* box::within: the half-open box [corner1, corner2)

grid_index(c) == [d \in 1 .. 3 |-> (c[d] - corner1[d]) \div Granularity]
\* box::grid_index

grid_granularity_inverse == (Scale * Scale) \div Granularity

FxMul(a, b) == DivT(a * b, Scale)
\* the product of two fixed-point numbers

GridNames == {"zero", "slope", "well", "high"}

grid_map(name, t, x, y, z) ==
    CASE name = "zero" -> 0
      [] name = "slope" -> Scale * (1 - x)
      [] name = "well" ->
            Scale * ((x - 1) * (x - 1) + (y - 1) * (y - 1) + (z - 1) * (z - 1) - 1)
            + (IF t >= 2 THEN Scale ELSE 0)
      [] OTHER -> 4 * Scale
\* grid_maps[t](x, y, z): the receptor maps the model reads, by name

Cutoff_Sqr == 64 * Scale * Scale
\* scoring_function::Cutoff_Sqr, 8 Angstrom squared

sf_evaluate(type_pair_index, r2) ==
    IF r2 < 4 * Scale * Scale THEN [e |-> 2 * Scale, dor |-> -Scale]
    ELSE IF r2 < 16 * Scale * Scale THEN [e |-> -Scale, dor |-> Scale \div 2]
    ELSE [e |-> 0, dor |-> 0]
\* scoring_function::evaluate: repulsive below 2 Angstrom, attractive below 4

\* -------------------------------------------------------- ligand::evaluate

conformation(position, orientation, torsions) ==
    [position |-> position, orientation |-> orientation, torsions |-> torsions]

change(n) == [position |-> zero3, orientation |-> zero3, torsions |-> [i \in 1 .. n |-> 0]]
\* change g(num_active_torsions)

Rejected(stage) == [ok |-> FALSE, stage |-> stage, e |-> 0, f |-> 0, g |-> change(0)]
\* return false, with the place it returned from

RECURSIVE AtomsWithin(_, _, _, _, _, _)
AtomsWithin(L, origin, m, i, iend, coordinates) ==
    IF i >= iend THEN [ok |-> TRUE, coordinates |-> coordinates]
    ELSE LET c == VAdd(origin, MatVec(m, At(L.heavy_atoms, i).coordinate))
         IN IF ~within(c) THEN [ok |-> FALSE, coordinates |-> coordinates]
            ELSE AtomsWithin(L, origin, m, i + 1, iend, SetAt(coordinates, i, c))
\* for (i = habegin; i < haend; ++i) { coordinates[i] = ...; if (!b.within) return false; }

RECURSIVE BranchFrames(_, _, _, _, _)
BranchFrames(L, conf, k, t, st) ==
    IF k >= L.num_frames THEN [st EXCEPT !.ok = TRUE]
    ELSE LET f == At(L.frames, k)
             o == VAdd(At(st.origin, f.parent),
                       MatVec(At(st.orientation_m, f.parent), f.parent_rotorY_to_current_rotorY))
             st1 == [st EXCEPT !.origin = SetAt(@, k, o)]
         IN IF ~within(o) THEN [st1 EXCEPT !.ok = FALSE, !.stage = "origin"]
            ELSE IF ~f.active
            THEN BranchFrames(L, conf, k + 1, t,
                     [st1 EXCEPT !.coordinates = SetAt(@, f.rotorY, o)])
            ELSE LET ax == MatVec(At(st.orientation_m, f.parent), f.parent_rotorX_to_current_rotorY)
                     q == QMul(vec4_to_qtn4(ax, At(conf.torsions, t)),
                               At(st.orientation_q, f.parent))
                     m == qtn4_to_mat3(q)
                     as == AtomsWithin(L, o, m, f.habegin, f.haend, st1.coordinates)
                     st2 == [st1 EXCEPT !.axis = SetAt(@, k, ax),
                                        !.orientation_q = SetAt(@, k, q),
                                        !.orientation_m = SetAt(@, k, m),
                                        !.coordinates = as.coordinates,
                                        !.read_torsions = Append(@, <<k, t>>)]
                 IN IF ~as.ok THEN [st2 EXCEPT !.ok = FALSE, !.stage = "branch_atom"]
                    ELSE BranchFrames(L, conf, k + 1, t + 1, st2)
\* ligand.cpp lines 384-418: for (k = 1, t = 0; k < num_frames; ++k)

InterEnergy(L, grid, coordinates) ==
    [i \in 1 .. L.num_heavy_atoms |->
        LET index == grid_index(coordinates[i])
            t == xs(L.heavy_atoms[i])
            e000 == grid_map(grid, t, index[1], index[2], index[3])
            e100 == grid_map(grid, t, index[1] + 1, index[2], index[3])
            e010 == grid_map(grid, t, index[1], index[2] + 1, index[3])
            e001 == grid_map(grid, t, index[1], index[2], index[3] + 1)
        IN [e |-> e000,
            d |-> << FxMul(e100 - e000, grid_granularity_inverse),
                     FxMul(e010 - e000, grid_granularity_inverse),
                     FxMul(e001 - e000, grid_granularity_inverse) >>]]
\* ligand.cpp lines 440-471: energies[i] and derivatives[i]

FxVec(s, v) == <<FxMul(s, v[1]), FxMul(s, v[2]), FxMul(s, v[3])>>

FxCross(a, b) ==
    LET c == cross_product(a, b)
    IN <<DivT(c[1], Scale), DivT(c[2], Scale), DivT(c[3], Scale)>>

RECURSIVE IntraEnergy(_, _, _, _)
IntraEnergy(L, coordinates, n, acc) ==
    IF n > Len(L.interacting_pairs) THEN acc
    ELSE LET p == L.interacting_pairs[n]
             r == VSub(At(coordinates, p.i2), At(coordinates, p.i1))
             r2 == norm_sqr(r)
             element == sf_evaluate(p.type_pair_index, r2)
             derivative == FxVec(element.dor, r)
         IN IF r2 < Cutoff_Sqr
            THEN IntraEnergy(L, coordinates, n + 1,
                   [e |-> acc.e + element.e,
                    derivatives |->
                        SetAt(SetAt(acc.derivatives, p.i1,
                                    VSub(At(acc.derivatives, p.i1), derivative)),
                              p.i2,
                              VAdd(At(SetAt(acc.derivatives, p.i1,
                                            VSub(At(acc.derivatives, p.i1), derivative)),
                                      p.i2),
                                   derivative))])
            ELSE IntraEnergy(L, coordinates, n + 1, acc)
\* ligand.cpp lines 476-491

RECURSIVE FrameForce(_, _, _, _, _, _)
FrameForce(coordinates, derivatives, origin, i, iend, acc) ==
    IF i >= iend THEN acc
    ELSE FrameForce(coordinates, derivatives, origin, i + 1, iend,
            [force |-> VAdd(acc.force, At(derivatives, i)),
             torque |-> VAdd(acc.torque,
                             FxCross(VSub(At(coordinates, i), origin), At(derivatives, i)))])
\* force[k] += derivatives[i]; torque[k] += cross_product(coordinates[i] - origin[k], ...)

RECURSIVE Aggregate(_, _, _, _, _)
Aggregate(L, st, derivatives, k, acc) ==
    IF k <= 0 THEN acc
    ELSE LET f == At(L.frames, k)
             own == FrameForce(st.coordinates, derivatives, At(st.origin, k),
                               f.habegin, f.haend,
                               [force |-> At(acc.force, k), torque |-> At(acc.torque, k)])
             force1 == SetAt(acc.force, k, own.force)
             torque1 == SetAt(acc.torque, k, own.torque)
             force2 == SetAt(force1, f.parent, VAdd(At(force1, f.parent), own.force))
             torque2 == SetAt(torque1, f.parent,
                              VAdd(At(torque1, f.parent),
                                   VAdd(own.torque,
                                        FxCross(VSub(At(st.origin, k), At(st.origin, f.parent)),
                                                own.force))))
         IN IF ~f.active
            THEN Aggregate(L, st, derivatives, k - 1,
                           [acc EXCEPT !.force = force2, !.torque = torque2])
            ELSE Aggregate(L, st, derivatives, k - 1,
                           [acc EXCEPT !.force = force2, !.torque = torque2,
                                       !.t = @ - 1,
                                       !.torsions = [@ EXCEPT ![acc.t] =
                                                        Dot(own.torque, At(st.axis, k))],
                                       !.written = Append(@, <<k, acc.t - 1>>)])
\* ligand.cpp lines 503-528: for (k = num_frames - 1, t = num_active_torsions; k > 0; --k)

RejectsAtBound_Strict(e, e_upper_bound) == e > e_upper_bound
\* the bound test with > for >=

RejectsAtBound(e, e_upper_bound) == e >= e_upper_bound
\* ligand.cpp line 494

Blank(L, conf, m0) ==
    [ok |-> TRUE, stage |-> "done",
     origin |-> [k \in 1 .. L.num_frames |-> IF k = 1 THEN conf.position ELSE zero3],
     orientation_q |-> [k \in 1 .. L.num_frames |->
                           IF k = 1 THEN conf.orientation ELSE <<0, 0, 0, 0>>],
     orientation_m |-> [k \in 1 .. L.num_frames |->
                           IF k = 1 THEN m0 ELSE <<0, 0, 0, 0, 0, 0, 0, 0, 0>>],
     axis |-> [k \in 1 .. L.num_frames |-> zero3],
     coordinates |-> [i \in 1 .. L.num_heavy_atoms |-> zero3],
     read_torsions |-> <<>>]
\* ligand.cpp lines 350-376: the frame-wide and atom-wide vectors, resized, and
\* the root frame's origin and orientation

EvaluateDone(st, f, intra, branches, whole) ==
    [ok |-> TRUE, stage |-> "done", e |-> intra.e, f |-> f,
     g |-> [position |-> whole.force, orientation |-> whole.torque,
            torsions |-> branches.torsions],
     read_torsions |-> st.read_torsions, written |-> branches.written]
\* ligand.cpp lines 530-541: g.position = force.front(); g.orientation = torque.front()

EvaluateRootForce(L, conf, st, f, intra, branches) ==
    EvaluateDone(st, f, intra, branches,
        FrameForce(st.coordinates, intra.derivatives, conf.position,
                   At(L.frames, 0).habegin, At(L.frames, 0).haend,
                   [force |-> At(branches.force, 0), torque |-> At(branches.torque, 0)]))
\* ligand.cpp lines 530-536: the root frame's own atoms

EvaluateBound(L, conf, e_upper_bound, g_in, st, f, intra) ==
    IF RejectsAtBound(intra.e, e_upper_bound)
    THEN [Rejected("energy") EXCEPT !.e = intra.e, !.f = f]
    ELSE EvaluateRootForce(L, conf, st, f, intra,
             Aggregate(L, st, intra.derivatives, L.num_frames - 1,
                       [force |-> [k \in 1 .. L.num_frames |-> zero3],
                        torque |-> [k \in 1 .. L.num_frames |-> zero3],
                        t |-> L.num_active_torsions,
                        torsions |-> g_in.torsions,
                        written |-> <<>>]))
\* ligand.cpp lines 493-528

EvaluateIntra(L, conf, e_upper_bound, g_in, st, inter, f) ==
    EvaluateBound(L, conf, e_upper_bound, g_in, st, f,
        IntraEnergy(L, st.coordinates, 1,
                    [e |-> f, derivatives |-> [i \in 1 .. L.num_heavy_atoms |-> inter[i].d]]))
\* ligand.cpp lines 473-491: f = e, then the intra-ligand pairs

EvaluateInter(L, conf, e_upper_bound, g_in, st, inter) ==
    EvaluateIntra(L, conf, e_upper_bound, g_in, st, inter,
        SumTo([i \in 1 .. L.num_heavy_atoms |-> inter[i].e], L.num_heavy_atoms))
\* ligand.cpp lines 440-471: e is the sum of the atoms' grid energies

EvaluateBranches(L, conf, map, e_upper_bound, g_in, st) ==
    IF ~st.ok THEN Rejected(st.stage)
    ELSE EvaluateInter(L, conf, e_upper_bound, g_in, st, InterEnergy(L, map, st.coordinates))
\* ligand.cpp lines 384-418, the returns of the loop over the BRANCH frames

EvaluateRoot(L, conf, map, e_upper_bound, g_in, m0, rootAtoms) ==
    IF ~rootAtoms.ok THEN Rejected("root_atom")
    ELSE EvaluateBranches(L, conf, map, e_upper_bound, g_in,
             BranchFrames(L, conf, 1, 0,
                          [Blank(L, conf, m0) EXCEPT !.coordinates = rootAtoms.coordinates]))
\* ligand.cpp lines 377-382, the returns of the loop over the ROOT frame's atoms

EvaluateFrom(L, conf, map, e_upper_bound, g_in, m0) ==
    EvaluateRoot(L, conf, map, e_upper_bound, g_in, m0,
        AtomsWithin(L, conf.position, m0, At(L.frames, 0).habegin, At(L.frames, 0).haend,
                    [i \in 1 .. L.num_heavy_atoms |-> zero3]))
\* ligand.cpp lines 372-382

evaluate(L, conf, map, e_upper_bound, g_in) ==
    IF ~within(conf.position) THEN Rejected("position")
    ELSE EvaluateFrom(L, conf, map, e_upper_bound, g_in, qtn4_to_mat3(conf.orientation))
\* ligand.cpp lines 344-542

RECURSIVE ComposeFrames(_, _, _, _, _)
ComposeFrames(L, conf, k, t, st) ==
    IF k >= L.num_frames THEN st
    ELSE LET f == At(L.frames, k)
             o == VAdd(At(st.origins, f.parent),
                       MatVec(At(st.orientations_m, f.parent), f.parent_rotorY_to_current_rotorY))
             q == QMul(vec4_to_qtn4(MatVec(At(st.orientations_m, f.parent),
                                           f.parent_rotorX_to_current_rotorY),
                                    IF f.active THEN At(conf.torsions, t) ELSE 0),
                       At(st.orientations_q, f.parent))
             m == qtn4_to_mat3(q)
         IN ComposeFrames(L, conf, k + 1, IF f.active THEN t + 1 ELSE t,
              [origins |-> SetAt(st.origins, k, o),
               orientations_q |-> SetAt(st.orientations_q, k, q),
               orientations_m |-> SetAt(st.orientations_m, k, m),
               heavy_atoms |-> [i \in 1 .. L.num_heavy_atoms |->
                   IF f.habegin <= i - 1 /\ i - 1 < f.haend
                   THEN VAdd(o, MatVec(m, L.heavy_atoms[i].coordinate))
                   ELSE st.heavy_atoms[i]],
               hydrogens |-> [i \in 1 .. L.num_hydrogens |->
                   IF f.hybegin <= i - 1 /\ i - 1 < f.hyend
                   THEN VAdd(o, MatVec(m, L.hydrogens[i].coordinate))
                   ELSE st.hydrogens[i]],
               read_torsions |-> IF f.active THEN Append(st.read_torsions, <<k, t>>)
                                 ELSE st.read_torsions])
\* ligand.cpp lines 567-588

ComposePose(L, conf) ==
    LET nf == L.num_frames
        root == At(L.frames, 0)
        m0 == qtn4_to_mat3(conf.orientation)
    IN ComposeFrames(L, conf, 1, 0,
         [origins |-> [k \in 1 .. nf |-> IF k = 1 THEN conf.position ELSE zero3],
          orientations_q |-> [k \in 1 .. nf |-> IF k = 1 THEN conf.orientation
                                               ELSE <<0, 0, 0, 0>>],
          orientations_m |-> [k \in 1 .. nf |-> IF k = 1 THEN m0
                                               ELSE <<0, 0, 0, 0, 0, 0, 0, 0, 0>>],
          heavy_atoms |-> [i \in 1 .. L.num_heavy_atoms |->
              IF root.habegin <= i - 1 /\ i - 1 < root.haend
              THEN VAdd(conf.position, MatVec(m0, L.heavy_atoms[i].coordinate))
              ELSE zero3],
          hydrogens |-> [i \in 1 .. L.num_hydrogens |->
              IF root.hybegin <= i - 1 /\ i - 1 < root.hyend
              THEN VAdd(conf.position, MatVec(m0, L.hydrogens[i].coordinate))
              ELSE zero3],
          read_torsions |-> <<>>])
\* ligand.cpp lines 544-588: the frames and atoms of a pose in world coordinates

compose_result(L, e, f, conf) ==
    LET pose == ComposePose(L, conf)
    IN [e |-> e, f |-> f, heavy_atoms |-> pose.heavy_atoms, hydrogens |-> pose.hydrogens]
\* ligand.cpp lines 544-591

\* ----------------------------------------------------- ligand::write_models

TypeColumn(line) == IF line.ad \in {"H", "HD"} THEN "H" ELSE line.ad
\* line[77]: the first character of the AutoDock type of an ATOM line

Fixed3(v) == [d \in 1 .. 3 |-> v[d] * (1000 \div Scale)]
\* out << setprecision(3) << setw(8): a coordinate as the text written, read in
\* thousandths of an Angstrom

Emitted(line, xyz) ==
    [kind |-> line.kind, n |-> line.n, ad |-> line.ad, size |-> line.size, xyz |-> xyz]
\* a line of the output file: columns 31-54 read as three numbers, and the rest

RECURSIVE WriteLines(_, _, _, _, _, _)
WriteLines(lines, j, heavy_atom, hydrogen, r, written) ==
    IF j >= Len(lines)
    THEN [lines |-> written, heavy_atom |-> heavy_atom, hydrogen |-> hydrogen]
    ELSE LET line == At(lines, j)
         IN IF line.size >= 79
            THEN IF TypeColumn(line) = "H"
                 THEN WriteLines(lines, j + 1, heavy_atom, hydrogen + 1, r,
                          Append(written, Emitted(line, Fixed3(At(r.hydrogens, hydrogen)))))
                 ELSE WriteLines(lines, j + 1, heavy_atom + 1, hydrogen, r,
                          Append(written, Emitted(line, Fixed3(At(r.heavy_atoms, heavy_atom)))))
            ELSE WriteLines(lines, j + 1, heavy_atom, hydrogen, r,
                     Append(written, Emitted(line, Fixed3(line.coordinate))))
\* ligand.cpp lines 612-628: a line of 79 characters or more gets the next
\* hydrogen or heavy-atom coordinate between substr(0, 30) and substr(54); a
\* shorter line is written as it was read

write_models(L, rs, num_conformations) ==
    [i \in 1 .. num_conformations |->
        LET w == WriteLines(L.lines, 0, 0, 0, rs[i], <<>>)
        IN [n |-> i, e |-> rs[i].e * (1000 \div Scale), lines |-> w.lines,
            heavy_atom |-> w.heavy_atom, hydrogen |-> w.hydrogen]]
\* ligand.cpp lines 593-631: MODEL i + 1, the REMARK with r.e, the lines, ENDMDL;
\* heavy_atom and hydrogen are the loop's counters when it ends

\* ------------------------------------------------------- the result pool

Capacity == 2
\* results.capacity(): the number of results a container keeps

PoseDistance(r, s) ==
    SumTo([i \in 1 .. Len(r.heavy_atoms) |-> distance_sqr(r.heavy_atoms[i], s.heavy_atoms[i])],
          Len(r.heavy_atoms))
\* the sum over the heavy atoms of the squared displacement between two results

Absorbed(entries, r, required_square_error) ==
    \E n \in 1 .. Len(entries) :
        entries[n].e <= r.e /\ PoseDistance(r, entries[n]) < required_square_error
\* step 1: r is within required_square_error of an entry that is no worse

SortedInsert(entries, r) ==
    LET k == Cardinality({n \in 1 .. Len(entries) : entries[n].e <= r.e})
    IN SubSeq(entries, 1, k) \o <<r>> \o SubSeq(entries, k + 1, Len(entries))
\* step 2: r at its sorted position, after the entries that are no worse

add_to_result_container_Unsorted(entries, r, required_square_error) ==
    IF Absorbed(entries, r, required_square_error) THEN entries
    ELSE SubSeq(Append(entries, r), 1, Min(Len(entries) + 1, Capacity))
\* r at the back for r at its sorted position

add_to_result_container(entries, r, required_square_error) ==
    IF Absorbed(entries, r, required_square_error) THEN entries
    ELSE SubSeq(SortedInsert(entries, r), 1, Min(Len(entries) + 1, Capacity))
\* insertion of a candidate r into the pool; above Capacity the last entry goes

RequiredSquareError(L) == 1 * L.num_heavy_atoms * Scale * Scale
\* monte_carlo_task.cpp line 13: const double required_square_error

\* ------------------------------------------------- the random distributions

EngineStates == 64
\* the states of the model's generator, a full-period congruential one

Seeded_PerTask(seed, t) == (seed + t) % EngineStates
\* a generator seeded from the seed and the task's number

Seeded(seed, t) == seed % EngineStates
\* monte_carlo_task.cpp line 16: mt19937_64 eng(seed)

Advance(eng) == (13 * eng + 7) % EngineStates
\* eng(): the next state, which is also the number drawn

RECURSIVE Skip(_, _)
Skip(eng, n) == IF n = 0 THEN eng ELSE Skip(Advance(eng), n - 1)
\* the generator after n draws

uniform_01_gen(raw) == (raw * Scale) \div EngineStates

uniform_11_gen(raw) == -Scale + (raw * 2 * Scale) \div EngineStates

uniform_pi_gen(raw) == -PiUnits + (raw * 2 * PiUnits) \div EngineStates

uniform_box_gen(d, raw) == corner1[d] + (raw * (corner2[d] - corner1[d])) \div EngineStates

uniform_entity_gen(raw, num_entities) == (raw * num_entities) \div EngineStates

normal_01_gen(raw) == ((raw * 3) \div EngineStates) - 1
\* a standard normal sample as its sign, 0 for the middle third

normalize4(a) ==
    IF \A d \in 1 .. 4 : a[d] # 0 THEN a
    ELSE IF \A d \in 1 .. 4 : a[d] = 0 THEN qt_identity
    ELSE LET first == CHOOSE d \in 1 .. 4 : a[d] # 0 /\ \A c \in 1 .. d - 1 : a[c] = 0
         IN [d \in 1 .. 4 |-> IF d = first THEN 2 * a[d] ELSE 0]
\* array.cpp normalize(array<float,4>), to the nearest of the unit quaternions
\* held: all four components equal in size, or the first non-zero one alone

vec3_to_qtn4(v) ==
    LET most == 1 + (Abs(v[1]) + Abs(v[2]) + Abs(v[3])) \div PiUnits
        turns == Cardinality({j \in 1 .. most :
                     4 * norm_sqr(v) >= (2 * j - 1) * (2 * j - 1) * PiUnits * PiUnits})
        big == CHOOSE d \in 1 .. 3 : \A c \in 1 .. 3 :
                   Abs(v[d]) > Abs(v[c]) \/ (Abs(v[d]) = Abs(v[c]) /\ d <= c)
        axis == [d \in 1 .. 3 |-> IF d = big THEN Sign(v[d]) ELSE 0]
    IN vec4_to_qtn4(axis, turns * PiUnits)
\* the quaternion of a rotation vector: the angle is its length, to the nearest
\* multiple of pi, and the axis its direction, to the nearest coordinate axis

\* ------------------------------------------------------ monte_carlo_task

num_random_starts == 1000

iterations_per_heavy_atom == 100

num_alphas == 5

MaxIterations == 2
\* Monte Carlo iterations of a task that the model follows

MaxBfgsSteps == 12
\* accepted line searches of one BFGS run that the model follows

num_mc_iterations(L) == iterations_per_heavy_atom * L.num_heavy_atoms

num_entities(L) == 2 + L.num_active_torsions

num_variables(L) == 6 + L.num_active_torsions

EUpperBound(L) == 4 * L.num_heavy_atoms * Scale
\* monte_carlo_task.cpp line 12: const double e_upper_bound

Flat(g) == g.position \o g.orientation \o g.torsions
\* change::operator[]: position, orientation, then the torsions

RandomConformation(L, eng) ==
    LET n == L.num_active_torsions
        raw(k) == Skip(eng, k)
    IN [c |-> conformation(
                  <<uniform_box_gen(1, raw(1)), uniform_box_gen(2, raw(2)),
                    uniform_box_gen(3, raw(3))>>,
                  normalize4(<<normal_01_gen(raw(4)), normal_01_gen(raw(5)),
                               normal_01_gen(raw(6)), normal_01_gen(raw(7))>>),
                  [i \in 1 .. n |-> uniform_pi_gen(raw(7 + i))]),
        eng |-> Skip(eng, 7 + n)]
\* monte_carlo_task.cpp lines 33-39: randomize conformation c0

Mutation(L, c0, eng) ==
    LET mutation_entity == uniform_entity_gen(Skip(eng, 1), num_entities(L))
        raw(k) == Skip(eng, 1 + k)
        v == <<uniform_11_gen(raw(1)), uniform_11_gen(raw(2)), uniform_11_gen(raw(3))>>
    IN IF mutation_entity < L.num_active_torsions
       THEN [c |-> [c0 EXCEPT !.torsions = SetAt(@, mutation_entity, uniform_pi_gen(raw(1)))],
             eng |-> Skip(eng, 2)]
       ELSE IF mutation_entity = L.num_active_torsions
       THEN [c |-> [c0 EXCEPT !.position = VAdd(@, v)], eng |-> Skip(eng, 4)]
       ELSE [c |-> [c0 EXCEPT !.orientation =
                        QMul(vec3_to_qtn4(<<DivT(v[1], 100), DivT(v[2], 100), DivT(v[3], 100)>>), @)],
             eng |-> Skip(eng, 4)]
\* monte_carlo_task.cpp lines 76-94: one mutation of c0 into c1

RECURSIVE MutateUntilValid(_, _, _, _, _)
MutationTried_Once(L, map, c0, num_mutations, m, ev) ==
    [ok |-> TRUE, c |-> m.c, e |-> ev.e, f |-> ev.f, g |-> ev.g, eng |-> m.eng,
     num_mutations |-> num_mutations + 1]
\* the mutation loop left after one pass, whatever the evaluator returned

MutationTried(L, map, c0, num_mutations, m, ev) ==
    IF ev.ok
    THEN [ok |-> TRUE, c |-> m.c, e |-> ev.e, f |-> ev.f, g |-> ev.g, eng |-> m.eng,
          num_mutations |-> num_mutations + 1]
    ELSE IF num_mutations + 1 >= EngineStates
    THEN [ok |-> FALSE, c |-> m.c, e |-> 0, f |-> 0, g |-> ev.g, eng |-> m.eng,
          num_mutations |-> num_mutations + 1]
    ELSE MutateUntilValid(L, map, c0, m.eng, num_mutations + 1)
\* line 95: while (!lig.evaluate(c1, sf, b, grid_maps, e_upper_bound, e1, f1, g1));
\* after EngineStates rejections the generator has repeated a state and the
\* loop never ends

Mutated(L, map, c0, num_mutations, m) ==
    MutationTried(L, map, c0, num_mutations, m,
        evaluate(L, m.c, map, EUpperBound(L), change(L.num_active_torsions)))

MutateUntilValid(L, map, c0, eng, num_mutations) ==
    Mutated(L, map, c0, num_mutations, Mutation(L, c0, eng))
\* monte_carlo_task.cpp lines 73-95: do { mutate } while (!lig.evaluate(c1, ...))

RECURSIVE Pow10(_)
Pow10(n) == IF n = 0 THEN 1 ELSE 10 * Pow10(n - 1)

CeilDiv(a, b) == IF a <= 0 THEN DivT(a, b) ELSE (a + b - 1) \div b
\* the least integer that is at least a / b, b > 0

DotN(a, b) == DivT(SumTo([i \in 1 .. Len(a) |-> a[i] * b[i]], Len(a)), Scale)
\* the fixed-point dot product of two vectors of variables

identity_hessian(num_vars) ==
    [n \in 1 .. (num_vars * (num_vars + 1)) \div 2 |->
        IF \E i \in 0 .. num_vars - 1 : n - 1 = mr(i, i) THEN Scale ELSE 0]
\* monte_carlo_task.cpp lines 57-59

HTimes(h, v) ==
    [i \in 1 .. Len(v) |->
        DivT(SumTo([j \in 1 .. Len(v) |-> At(h, mp(i - 1, j - 1)) * v[j]], Len(v)), Scale)]
\* sum += h[triangular_matrix_permissive_index(i, j)] * v[j]

Negated(v) == [i \in 1 .. Len(v) |-> -v[i]]

LineStep(L, c1, p, k) ==
    conformation(
        <<c1.position[1] + DivT(p[1], Pow10(k)), c1.position[2] + DivT(p[2], Pow10(k)),
          c1.position[3] + DivT(p[3], Pow10(k))>>,
        QMul(vec3_to_qtn4(<<DivT(p[4], Pow10(k)), DivT(p[5], Pow10(k)), DivT(p[6], Pow10(k))>>),
             c1.orientation),
        [i \in 1 .. L.num_active_torsions |-> c1.torsions[i] + DivT(p[6 + i], Pow10(k))])
\* monte_carlo_task.cpp lines 131-138: c2 = c1 + alpha * p, alpha = 10^-k

ArmijoBound(e1, pg1, k) == e1 + CeilDiv(pg1, Pow10(4 + k))
\* monte_carlo_task.cpp line 143: e1 + 0.0001 * alpha * pg1, as the least energy
\* in fixed-point units that is not below it

RECURSIVE LineSearch(_, _, _, _, _, _, _)
LineTried_CurvatureOnly(L, map, c1, e1, p, pg1, k, c2, ev) ==
    IF 10 * DotN(p, Flat(ev.g)) >= 9 * pg1
    THEN [found |-> TRUE, k |-> k, c |-> c2, e |-> ev.e, f |-> ev.f, g |-> ev.g]
    ELSE LineSearch(L, map, c1, e1, p, pg1, k + 1)
\* the curvature condition alone, whatever the evaluator returned

LineTried(L, map, c1, e1, p, pg1, k, c2, ev) ==
    IF ev.ok /\ 10 * DotN(p, Flat(ev.g)) >= 9 * pg1
    THEN [found |-> TRUE, k |-> k, c |-> c2, e |-> ev.e, f |-> ev.f, g |-> ev.g]
    ELSE LineSearch(L, map, c1, e1, p, pg1, k + 1)
\* monte_carlo_task.cpp lines 143-151: if (lig.evaluate(c2, ...)) { pg2 = p * g2;
\* if (pg2 >= 0.9 * pg1) break; }

LineTrial(L, map, c1, e1, p, pg1, k, c2) ==
    LineTried(L, map, c1, e1, p, pg1, k, c2,
        evaluate(L, c2, map, ArmijoBound(e1, pg1, k), change(L.num_active_torsions)))

LineSearch(L, map, c1, e1, p, pg1, k) ==
    IF k > num_alphas THEN [found |-> FALSE]
    ELSE LineTrial(L, map, c1, e1, p, pg1, k, LineStep(L, c1, p, k))
\* monte_carlo_task.cpp lines 124-152: the trials of alpha for one direction

HessianAdd(h, p, mhy, ryp, pco) ==
    [m \in 1 .. Len(h) |->
        LET j == CHOOSE j \in 0 .. Len(p) - 1 : mr(0, j) <= m - 1 /\ m - 1 <= mr(j, j)
            i == m - 1 - mr(0, j)
        IN h[m] + DivT(ryp * (mhy[i + 1] * p[j + 1] + mhy[j + 1] * p[i + 1]), Scale * Scale)
                + DivT(pco * p[i + 1] * p[j + 1], Scale * Scale)]
\* monte_carlo_task.cpp lines 173-177

HessianScaled(h, p, mhy, yhy, ryp, alpha) ==
    HessianAdd(h, p, mhy, ryp, DivT(ryp * (DivT(ryp * yhy, Scale) + alpha), Scale))
\* line 172: pco = ryp * (ryp * yhy + alpha)

HessianWith(h, p, k, y, mhy) ==
    IF DotN(y, p) = 0 THEN <<>>
    ELSE HessianScaled(h, p, mhy, -DotN(y, mhy), DivT(Scale * Scale, DotN(y, p)),
                       DivT(Scale, Pow10(k)))
\* lines 165-171: yhy, yp and ryp = 1 / yp, which is infinite when yp is 0; h then
\* holds no numbers, written <<>>

HessianFor(h, p, k, y) == HessianWith(h, p, k, y, Negated(HTimes(h, y)))
\* lines 159-164: mhy = -h * y

HessianUpdate(h, g1, g2, p, k) == HessianFor(h, p, k, [i \in 1 .. Len(p) |-> g2[i] - g1[i]])
\* monte_carlo_task.cpp lines 157-178

RECURSIVE Bfgs(_, _, _, _, _)
AcceptedStep(x, p, g1, ls) ==
    [e1 |-> x.e, pg1 |-> DotN(p, g1), k |-> ls.k, c2 |-> ls.c, e2 |-> ls.e, f2 |-> ls.f,
     g2 |-> ls.g]
\* history: a line search that found an alpha, from the pose of energy e1

BfgsSearched(L, map, x, h, steps, g1, p, ls) ==
    IF ~ls.found THEN [x EXCEPT !.steps = steps, !.p = p]
    ELSE IF steps + 1 >= MaxBfgsSteps
    THEN [c |-> ls.c, e |-> ls.e, f |-> ls.f, g |-> ls.g, steps |-> steps + 1,
          finished |-> FALSE, p |-> p, path |-> Append(x.path, AcceptedStep(x, p, g1, ls))]
    ELSE Bfgs(L, map, [c |-> ls.c, e |-> ls.e, f |-> ls.f, g |-> ls.g, steps |-> steps + 1,
                       finished |-> TRUE, p |-> p,
                       path |-> Append(x.path, AcceptedStep(x, p, g1, ls))],
              HessianUpdate(h, g1, Flat(ls.g), p, ls.k), steps + 1)
\* lines 154-184: break if no alpha was found; update h; c1 = c2, e1 = e2, ...

BfgsDirected(L, map, x, h, steps, g1, p, pg1) ==
    BfgsSearched(L, map, x, h, steps, g1, p, LineSearch(L, map, x.c, x.e, p, pg1, 1))

BfgsDirection(L, map, x, h, steps, g1, p) ==
    BfgsDirected(L, map, x, h, steps, g1, p, DotN(p, g1))
\* lines 116-119: pg1 = p * g1

BfgsFrom(L, map, x, h, steps, g1) ==
    BfgsDirection(L, map, x, h, steps, g1, Negated(HTimes(h, g1)))
\* lines 107-114: p = -h * g1

Bfgs(L, map, x, h, steps) ==
    IF h = <<>> THEN [x EXCEPT !.steps = steps, !.p = <<>>]
    ELSE BfgsFrom(L, map, x, h, steps, Flat(x.g))
\* monte_carlo_task.cpp lines 105-185: while (true) { direction; line search;
\* break if no alpha was found; update h; c1 = c2, e1 = e2, f1 = f2, g1 = g2 }.
\* With h holding no numbers every c2 is not a number and no alpha is found.

MetropolisAccepts_Downhill(e0, e1, raw) == e0 - e1 > 0
\* acceptance of strictly lower energies only, without the random draw

MetropolisAccepts(e0, e1, raw) ==
    LET delta == e0 - e1
        exp == CASE delta >= 0 -> Scale
                 [] delta >= -1 -> 9
                 [] delta >= -2 -> 8
                 [] delta >= -4 -> 7
                 [] delta >= -5 -> 6
                 [] delta >= -7 -> 5
                 [] delta >= -10 -> 4
                 [] delta >= -13 -> 3
                 [] delta >= -18 -> 2
                 [] delta >= -29 -> 1
                 [] OTHER -> 0
    IN delta > 0 \/ uniform_01_gen(raw) < exp
\* monte_carlo_task.cpp lines 188-189

\* ------------------------------------------------------------------- state

VARIABLES
    lig,          \* the ligand object: lines, frames, heavy_atoms, hydrogens, ...
    numbers,      \* constructor local: serial numbers of the heavy atoms
    current,      \* constructor local: index of the current frame
    num_lines,    \* constructor local: lines read so far
    status,       \* "parsing", "constructed", "parse_error", "assert_failed", "crashed"
    assertions,   \* the build: TRUE when BOOST_ASSERT is compiled in
    open,         \* history: heavy-atom lines read before each BRANCH line still open
    sawEmpty,     \* history: an ENDBRANCH closed a BRANCH with no heavy atom in between
    sawStray,     \* history: an ENDBRANCH was read with no BRANCH open
    sawOutside,   \* history: a serial search read past the end of numbers
    readInto,     \* history: for each atom stored, the current and the last frame then
    conf,         \* evaluate: the conformation passed in
    grid,         \* the receptor's grid maps, by name
    e_upper_bound,\* evaluate: the energy bound passed in
    out,          \* evaluate: what the call returned
    results,      \* the result containers, each a sequence of results
    offers,       \* history: the results offered to container 1, in order
    models,       \* the output ligand file, one entry for each MODEL written
    task,         \* the monte_carlo_task instances: locals and position of each
    run           \* the tasks' arguments: seeds and containers

parseVars == <<lig, numbers, current, num_lines, status, assertions, open, sawEmpty, sawStray,
               sawOutside, readInto>>

evalVars == <<conf, grid, e_upper_bound, out>>

poolVars == <<results, offers, models>>

mcVars == <<task, run>>

vars == <<lig, numbers, current, num_lines, status, assertions, open, sawEmpty, sawStray,
          sawOutside, readInto, conf, grid, e_upper_bound, out, results, offers, models, task, run>>

NoCall == [ok |-> FALSE, stage |-> "none", e |-> 0, f |-> 0, g |-> change(0)]
\* out before evaluate has been called

EvalIdle ==
    /\ conf = conformation(zero3, qt_identity, <<>>)
    /\ grid = "zero"
    /\ e_upper_bound = 0
    /\ out = NoCall

PoolIdle == results = <<>> /\ offers = <<>> /\ models = <<>>

McIdle == task = <<>> /\ run = <<>>

PState ==
    [lig |-> lig, numbers |-> numbers, current |-> current, num_lines |-> num_lines,
     status |-> status, assertions |-> assertions]

SetPState(ps) ==
    /\ lig' = ps.lig
    /\ numbers' = ps.numbers
    /\ current' = ps.current
    /\ num_lines' = ps.num_lines
    /\ status' = ps.status
    /\ assertions' = ps.assertions

\* ------------------------------------------------- the constructor, by line

HeavyLinesRead ==
    Cardinality({n \in 1 .. Len(lig.lines) :
        lig.lines[n].kind = "ATOM" /\ lig.lines[n].ad \in AdNames \ {"H", "HD"}})

AtomLinesRead == Cardinality({n \in 1 .. Len(lig.lines) : lig.lines[n].kind = "ATOM"})

NextCoords ==
    LET all == lig.heavy_atoms \o lig.hydrogens
        far == IF Len(all) = 0 THEN -Scale
               ELSE CHOOSE x \in {all[n].coordinate[1] : n \in 1 .. Len(all)} :
                       \A n \in 1 .. Len(all) : all[n].coordinate[1] <= x
    IN {<<far + Scale, 0, 0>>}
\* the atoms of an input lie on a line, 1 Angstrom apart

InitLigand ==
    /\ assertions \in BOOLEAN
    /\ lig = EmptyLigand
    /\ numbers = <<>>
    /\ current = 0
    /\ num_lines = 0
    /\ status = "parsing"
    /\ open = <<>>
    /\ sawEmpty = FALSE
    /\ sawStray = FALSE
    /\ sawOutside = FALSE
    /\ readInto = <<>>
    /\ EvalIdle
    /\ PoolIdle
    /\ McIdle

MoreInput == status = "parsing" /\ num_lines < MaxLines

SearchLeaves(x) == FindSerial(numbers, At(lig.frames, current).habegin, x) = Uninit
\* the search for serial number x from the current frame's first atom on finds
\* none and reads on past the end of numbers

StoredAtom(hydrogen, i) ==
    [hydrogen |-> hydrogen, i |-> i, current |-> current, last |-> Len(lig.frames) - 1]
\* history of lines 64-89: the atom pushed at index i of hydrogens or heavy_atoms,
\* with the current frame and the most recently created frame at that moment

ReadAtom ==
    /\ MoreInput
    /\ AtomLinesRead < MaxAtoms
    /\ \E ad \in AdNames \cup {"Zz"}, c \in NextCoords :
          SetPState(ParseAtom(PState, AtomLine(AtomLinesRead + 1, ad, c)))
    /\ readInto' = IF Len(lig'.heavy_atoms) > Len(lig.heavy_atoms)
                   THEN Append(readInto, StoredAtom(FALSE, Len(lig.heavy_atoms)))
                   ELSE IF Len(lig'.hydrogens) > Len(lig.hydrogens)
                   THEN Append(readInto, StoredAtom(TRUE, Len(lig.hydrogens)))
                   ELSE readInto
    /\ UNCHANGED <<open, sawEmpty, sawStray, sawOutside, evalVars, poolVars, mcVars>>

ReadBranch ==
    /\ MoreInput
    /\ \E x \in 1 .. MaxSerial, ub \in UBOutcomes :
          /\ SetPState(ParseBranch(PState, BranchLine(x), ub))
          /\ sawOutside' = (sawOutside \/ SearchLeaves(x))
    /\ open' = Append(open, HeavyLinesRead)
    /\ UNCHANGED <<sawEmpty, sawStray, readInto, evalVars, poolVars, mcVars>>

ReadEndBranch ==
    /\ MoreInput
    /\ \E y \in 1 .. MaxSerial, ub \in UBOutcomes :
          /\ SetPState(ParseEndBranch(PState, EndBranchLine(y), ub))
          /\ sawOutside' = (sawOutside \/ (~EmptyBranch(At(lig.frames, current),
                                                         lig.heavy_atoms)
                                            /\ SearchLeaves(y)))
    /\ open' = IF open = <<>> THEN open ELSE SubSeq(open, 1, Len(open) - 1)
    /\ sawEmpty' = (sawEmpty \/ (open # <<>> /\ open[Len(open)] = HeavyLinesRead))
    /\ sawStray' = (sawStray \/ open = <<>>)
    /\ UNCHANGED <<readInto, evalVars, poolVars, mcVars>>

ReadKept ==
    /\ MoreInput
    /\ SetPState(ParseKept(PState, RootLine))
    /\ UNCHANGED <<open, sawEmpty, sawStray, sawOutside, readInto, evalVars, poolVars, mcVars>>

ReadIgnored ==
    /\ MoreInput
    /\ SetPState(ParseIgnored(PState))
    /\ UNCHANGED <<open, sawEmpty, sawStray, sawOutside, readInto, evalVars, poolVars, mcVars>>

EndOfInput ==
    /\ status = "parsing"
    /\ \E ub \in UBOutcomes : SetPState(FinishParse(PState, ub))
    /\ UNCHANGED <<open, sawEmpty, sawStray, sawOutside, readInto, evalVars, poolVars, mcVars>>

NextLigand ==
    \/ ReadAtom
    \/ ReadBranch
    \/ ReadEndBranch
    \/ ReadKept
    \/ ReadIgnored
    \/ EndOfInput

SpecLigand == InitLigand /\ [][NextLigand]_vars

\* ------------------------------------------------- claims on the constructor

\* C7: whenever the constructor reads an ENDBRANCH that closes a BRANCH with no
\* heavy-atom line in between (hydrogens or nothing at all), it throws a parsing
\* error, so no ligand object is produced.
C7_EmptyBranchIsParseError == sawEmpty => status = "parse_error"

C7_Witness == sawEmpty /\ status = "parse_error" /\ Len(lig.frames) = 2

\* C8: construction fails with a parsing error whenever BRANCH and ENDBRANCH do
\* not match, so a ligand constructed (here: without any read outside its
\* vectors) has seen no ENDBRANCH without an open BRANCH, has no BRANCH left
\* open, and ended with the root as current frame.
C8_UnmatchedIsParseError ==
    (status = "constructed" /\ ~ReadsOutside(lig))
        => (~sawStray /\ open = <<>> /\ current = 0)


\* ------------------------------------------------------- evaluate, by call

A(n, ad, x, y, z) == AtomLine(n, ad, <<x * Scale, y * Scale, z * Scale>>)
\* an ATOM line: serial, AutoDock type, coordinates in Angstrom

OneAtom == <<RootLine, A(1, "C", 0, 0, 0), RemarkLine, RemarkLine>>

TwoAtoms == <<RootLine, A(1, "C", 0, 0, 0), A(2, "N", 1, 0, 0), RemarkLine, RemarkLine>>

ActiveBranch ==
    <<RootLine, A(1, "C", 0, 0, 0), A(2, "C", 1, 0, 0), RemarkLine,
      BranchLine(2), A(3, "C", 1, 1, 0), A(4, "N", 2, 1, 0), EndBranchLine(3), RemarkLine>>

InactiveBranch ==
    <<RootLine, A(1, "C", 0, 0, 0), A(2, "C", 1, 0, 0), RemarkLine,
      BranchLine(2), A(3, "N", 1, 1, 0), EndBranchLine(3), RemarkLine>>

NestedBranches ==
    <<RootLine, A(1, "C", 0, 0, 0), A(2, "C", 1, 0, 0), RemarkLine,
      BranchLine(2), A(3, "C", 1, 1, 0), A(4, "C", 2, 1, 0),
      BranchLine(4), A(5, "C", 2, 1, 1), A(6, "N", 2, 2, 1), EndBranchLine(5),
      EndBranchLine(3), RemarkLine>>

Ligands == {OneAtom, TwoAtoms, ActiveBranch, InactiveBranch, NestedBranches}
\* the ligand files the evaluator is exercised on: one atom; two root atoms; an
\* active branch; an inactive branch; two nested branches with interacting pairs

Orientations ==
    {q \in [1 .. 4 -> -2 .. 2] :
        /\ normalized4(q)
        /\ \/ \A d \in 1 .. 4 : q[d] \in {-2, 0, 2}
           \/ \A d \in 1 .. 4 : q[d] \in {-1, 1}
        /\ q[CHOOSE d \in 1 .. 4 : q[d] # 0 /\ \A c \in 1 .. d - 1 : q[c] = 0] > 0}
\* one quaternion for each of the twelve rotations these quaternions stand for

Positions ==
    {<<x, y, z>> : x \in {0, Scale, 2 * Scale}, y \in {0, Scale}, z \in {0, Scale}}
        \cup {<<-1, 0, 0>>, <<0, BoxLen, 0>>, <<0, 0, -Scale>>, <<BoxLen - 1, 0, 0>>}
\* positions inside the box and just outside each kind of face

Torsions(n) == [1 .. n -> {0, PiUnits}]

ParserDone(input) ==
    /\ lig = Construct(input)
    /\ numbers = <<>>
    /\ current = 0
    /\ num_lines = Len(input)
    /\ status = "constructed"
    /\ assertions = FALSE
    /\ open = <<>>
    /\ sawEmpty = FALSE
    /\ sawStray = FALSE
    /\ sawOutside = FALSE
    /\ readInto = <<>>

InitEvaluate ==
    /\ \E input \in Ligands : ParserDone(input)
    /\ grid \in GridNames
    /\ e_upper_bound \in {0, 4 * Scale * lig.num_heavy_atoms}
    /\ \E position \in Positions, orientation \in Orientations,
          torsions \in Torsions(lig.num_active_torsions) :
            conf = conformation(position, orientation, torsions)
    /\ out = NoCall
    /\ PoolIdle
    /\ McIdle

Evaluate ==
    /\ out.stage = "none"
    /\ out' = evaluate(lig, conf, grid, e_upper_bound, change(lig.num_active_torsions))
    /\ UNCHANGED <<parseVars, conf, grid, e_upper_bound, poolVars, mcVars>>
\* one call of ligand::evaluate

NextEvaluate == Evaluate

SpecEvaluate == InitEvaluate /\ [][NextEvaluate]_vars

Energy(L, coordinates) ==
    LET nha == L.num_heavy_atoms
        inter == InterEnergy(L, grid, coordinates)
    IN IntraEnergy(L, coordinates, 1,
                   [e |-> SumTo([i \in 1 .. nha |-> inter[i].e], nha),
                    derivatives |-> [i \in 1 .. nha |-> inter[i].d]]).e
\* ligand.cpp lines 440-491: the total energy of a pose, given its atom coordinates

\* C1: a call of ligand::evaluate returns true exactly when conf.position, the
\* world coordinate of every heavy atom and the origin of every non-root frame are
\* within the box and the total energy of the pose is strictly below
\* e_upper_bound; in every other case it returns false.
C1_EvaluateAcceptsIff ==
    out.stage # "none" =>
        (out.ok <=>
            LET pose == ComposePose(lig, conf)
            IN /\ within(conf.position)
               /\ \A i \in 1 .. lig.num_heavy_atoms : within(pose.heavy_atoms[i])
               /\ \A k \in 2 .. lig.num_frames : within(pose.origins[k])
               /\ Energy(lig, pose.heavy_atoms) < e_upper_bound)

C1_Witness ==
    /\ out.ok
    /\ out.stage = "done"
    /\ lig.num_frames = 3
    /\ Len(lig.interacting_pairs) > 0
    /\ out.e # out.f
    /\ \E t \in 1 .. Len(conf.torsions) : conf.torsions[t] = PiUnits

\* ------------------------------------------------------- the pool, by offer

MaxOffers == 3
\* results offered to the pool in one behaviour

PoolEnergies == {-Scale, 0, Scale}

PoolPositions == {<<0, 0, 0>>, <<6, 0, 0>>, <<12, 0, 0>>, <<24, 0, 0>>}
\* the first and second, and the second and third, are less than 1 Angstrom apart

InitPool ==
    /\ ParserDone(OneAtom)
    /\ EvalIdle
    /\ results = <<(<<>>)>>
    /\ offers = <<>>
    /\ models = <<>>
    /\ McIdle

Offer ==
    /\ Len(offers) < MaxOffers
    /\ \E e \in PoolEnergies, position \in PoolPositions :
          LET r == compose_result(lig, e, e, conformation(position, qt_identity, <<>>))
          IN /\ results' = [results EXCEPT ![1] =
                               add_to_result_container(@, r, RequiredSquareError(lig))]
             /\ offers' = Append(offers, r)
    /\ UNCHANGED <<parseVars, evalVars, models, mcVars>>
\* add_to_result_container(results, lig.compose_result(e, f, c), required_square_error)

NextPool == Offer

SpecPool == InitPool /\ [][NextPool]_vars

Close(r, s) == PoseDistance(r, s) < RequiredSquareError(lig)

\* C2: after any sequence of insertions no two entries of the pool are within
\* required_square_error of each other (so two offers with identical heavy-atom
\* positions leave at most one entry).
C2_NoTwoEntriesClose ==
    \A m, n \in 1 .. Len(results[1]) : m < n => ~Close(results[1][m], results[1][n])

Sorted(entries) == \A m, n \in 1 .. Len(entries) : m < n => entries[m].e <= entries[n].e

Members(entries) == {entries[n] : n \in 1 .. Len(entries)}

\* C3: after any sequence of insertions the pool is sorted by e ascending and
\* holds at most Capacity entries, and an entry that an insertion removes from
\* the pool is no better than any entry the insertion leaves in it.
C3_SortedBoundedDropsHighest ==
    /\ [](Sorted(results[1]) /\ Len(results[1]) <= Capacity)
    /\ [][\A s \in Members(results[1]) \ Members(results'[1]) :
             \A kept \in Members(results'[1]) : kept.e <= s.e]_vars

C3_Witness ==
    /\ Len(results[1]) = Capacity
    /\ \E n \in 1 .. Len(offers) - 1 :
          /\ offers[n] \notin Members(results[1])
          /\ \A m \in 1 .. Len(offers) : m # n => ~Close(offers[n], offers[m])
          /\ \A kept \in Members(results[1]) : kept.e < offers[n].e

RECURSIVE AddAll(_, _)
AddAll(entries, rs) ==
    IF rs = <<>> THEN entries
    ELSE AddAll(add_to_result_container(entries, Head(rs), RequiredSquareError(lig)), Tail(rs))

Orders(n) == {o \in [1 .. n -> 1 .. n] : \A a, b \in 1 .. n : a # b => o[a] # o[b]}

\* C4: the content of the pool does not depend on the order of the insertions:
\* offering the same results in any other order leaves the same pool.
C4_OrderIndependent ==
    \A o \in Orders(Len(offers)) :
        AddAll(<<>>, [n \in 1 .. Len(offers) |-> offers[o[n]]]) = results[1]

\* ------------------------------------------------- monte_carlo_task, by step

Seeds == {5, 42}

Runs ==
    {[n |-> 1, seed |-> <<a>>, pool |-> <<1>>] : a \in Seeds}
        \cup {[n |-> 2, seed |-> <<a, b>>, pool |-> <<1, c>>] :
                 a \in Seeds, b \in Seeds, c \in 1 .. 2}
\* the calls of monte_carlo_task in one run: the seed of each and the container
\* each was given

MoreStarts_OneMore(i, valid_conformation) == (i <= num_random_starts) /\ (~valid_conformation)
\* a loop bound with <= for <

MoreStarts(i, valid_conformation) == (i < num_random_starts) /\ (~valid_conformation)
\* monte_carlo_task.cpp line 31: (i < 1000) && (!valid_conformation)

NewTask(seed, t) ==
    [pc |-> "init", eng |-> Seeded(seed, t), i |-> 0, valid_conformation |-> FALSE,
     c0 |-> conformation(zero3, qt_identity, [n \in 1 .. lig.num_active_torsions |-> 0]),
     e0 |-> 0, f0 |-> 0, best_e |-> 0, mc_i |-> 0,
     c1 |-> conformation(zero3, qt_identity, [n \in 1 .. lig.num_active_torsions |-> 0]),
     e1 |-> 0, f1 |-> 0, g1 |-> change(lig.num_active_torsions), num_mutations |-> 0,
     mutated_e |-> 0, path |-> <<>>, p |-> <<>>,
     lowest |-> 0, accepted |-> 0, added |-> 0, starts_accepted |-> 0]
\* the locals of a call on entry (lines 16-30); the last four are history: the
\* lowest energy adopted, the iterations accepted, the results added and the
\* random starts the evaluator accepted

InitMC ==
    /\ \E input \in {OneAtom, ActiveBranch} : ParserDone(input)
    /\ run \in Runs
    /\ grid \in GridNames
    /\ run.n > 1 => grid # "high"
    /\ task = [t \in 1 .. run.n |-> NewTask(run.seed[t], t)]
    /\ results = <<(<<>>), (<<>>)>>
    /\ offers = <<>>
    /\ models = <<>>
    /\ conf = conformation(zero3, qt_identity, <<>>)
    /\ e_upper_bound = EUpperBound(lig)
    /\ out = NoCall

LoopOrDone(mc_i) ==
    IF mc_i < Min(num_mc_iterations(lig), MaxIterations) THEN "loop" ELSE "done"
\* line 67: mc_i < num_mc_iterations, followed for MaxIterations iterations

Started(me, rc, ev) ==
    [me EXCEPT !.eng = rc.eng, !.i = @ + 1, !.c0 = rc.c,
               !.e0 = IF ev.stage \in {"energy", "done"} THEN ev.e ELSE @,
               !.f0 = IF ev.stage \in {"energy", "done"} THEN ev.f ELSE @,
               !.valid_conformation = ev.ok,
               !.starts_accepted = IF ev.ok THEN @ + 1 ELSE @]
\* lines 33-40: c0 is randomized and evaluated; e0 and f0 are written when the
\* evaluation gets as far as the energy

StartedAt(me, rc) ==
    Started(me, rc,
        evaluate(lig, rc.c, grid, EUpperBound(lig), change(lig.num_active_torsions)))

RandomStart(t) ==
    /\ task[t].pc = "init"
    /\ MoreStarts(task[t].i, task[t].valid_conformation)
    /\ task' = [task EXCEPT ![t] = StartedAt(task[t], RandomConformation(lig, task[t].eng))]
    /\ UNCHANGED <<parseVars, evalVars, poolVars, run>>
\* lines 31-41: one pass of the loop over random starts

StartsOver(t) ==
    /\ task[t].pc = "init"
    /\ ~MoreStarts(task[t].i, task[t].valid_conformation)
    /\ LET me == task[t]
       IN task' = [task EXCEPT ![t] =
              IF ~me.valid_conformation THEN [me EXCEPT !.pc = "returned"]
              ELSE [me EXCEPT !.best_e = me.e0, !.lowest = me.e0, !.pc = LoopOrDone(0)]]
    /\ UNCHANGED <<parseVars, evalVars, poolVars, run>>
\* lines 42-65: if (!valid_conformation) return; double best_e = e0; ...

Decided(me, mu, b, accepts) ==
    [me EXCEPT !.eng = IF me.e0 - b.e <= 0 THEN Advance(mu.eng) ELSE mu.eng,
               !.num_mutations = mu.num_mutations,
               !.c1 = b.c, !.e1 = b.e, !.f1 = b.f, !.g1 = b.g,
               !.mutated_e = mu.e, !.path = b.path, !.p = b.p,
               !.mc_i = IF accepts THEN @ ELSE @ + 1,
               !.pc = IF ~accepts THEN LoopOrDone(me.mc_i + 1)
                      ELSE IF b.e < me.best_e THEN "add" ELSE "room"]
\* lines 187-193: the Metropolis criterion, which draws a number only when
\* delta <= 0, and the test e1 < best_e

Minimized(me, mu, b) ==
    IF ~b.finished THEN [me EXCEPT !.pc = "minimizing", !.eng = mu.eng]
    ELSE Decided(me, mu, b, MetropolisAccepts(me.e0, b.e, Advance(mu.eng)))

MutatedTask(me, mu) ==
    IF ~mu.ok
    THEN [me EXCEPT !.pc = "mutating", !.eng = mu.eng, !.num_mutations = mu.num_mutations]
    ELSE Minimized(me, mu,
             Bfgs(lig, grid,
                  [c |-> mu.c, e |-> mu.e, f |-> mu.f, g |-> mu.g, steps |-> 0,
                   finished |-> TRUE, p |-> <<>>, path |-> <<>>],
                  identity_hessian(num_variables(lig)), 0))
\* lines 97-185: h = identity_hessian, then BFGS from the mutated c1

Iterate(t) ==
    /\ task[t].pc = "loop"
    /\ task' = [task EXCEPT ![t] =
           MutatedTask(task[t], MutateUntilValid(lig, grid, task[t].c0, task[t].eng, 0))]
    /\ UNCHANGED <<parseVars, evalVars, poolVars, run>>
\* lines 67-193: mutate c0 into c1, minimise c1 with BFGS, apply the Metropolis
\* criterion, and test e1 < best_e

Adopt(me) ==
    [me EXCEPT !.c0 = me.c1, !.e0 = me.e1, !.mc_i = @ + 1, !.pc = LoopOrDone(me.mc_i + 1),
               !.lowest = Min(@, me.e1), !.accepted = @ + 1]
\* lines 200-201 and the end of the iteration: c0 = c1; e0 = e1;

Racing(t) == \E u \in DOMAIN task : u # t /\ run.pool[u] = run.pool[t] /\ task[u].pc = "adding"
\* another task is inside add_to_result_container on the container of task t

RoomCheck(t) ==
    /\ task[t].pc = "room"
    /\ \E room \in IF Racing(t) THEN BOOLEAN
                   ELSE {Len(results[run.pool[t]]) < Capacity} :
          task' = [task EXCEPT ![t] = IF room THEN [@ EXCEPT !.pc = "add"] ELSE Adopt(@)]
    /\ UNCHANGED <<parseVars, evalVars, poolVars, run>>
\* line 193: results.size() < results.capacity(); a size read while another task
\* writes the container can be either value

AddBegin(t) ==
    /\ task[t].pc = "add"
    /\ task' = [task EXCEPT ![t] = [@ EXCEPT !.pc = "adding"]]
    /\ UNCHANGED <<parseVars, evalVars, poolVars, run>>
\* line 195: add_to_result_container is entered

BestAfterAdd(best_e, e0, e1) == IF e1 < best_e THEN e0 ELSE best_e
\* line 196: if (e1 < best_e) best_e = e0;

Added(me) ==
    [Adopt(me) EXCEPT !.best_e = BestAfterAdd(me.best_e, me.e0, me.e1), !.added = @ + 1]
\* lines 196-201

AddEnd(t) ==
    /\ task[t].pc = "adding"
    /\ \E outcome \in IF Racing(t) THEN {"serial", "lost", "crash"} ELSE {"serial"} :
          CASE outcome = "serial" ->
                 /\ results' = [results EXCEPT ![run.pool[t]] =
                        add_to_result_container(@,
                            compose_result(lig, task[t].e1, task[t].f1, task[t].c1),
                            RequiredSquareError(lig))]
                 /\ task' = [task EXCEPT ![t] = Added(@)]
            [] outcome = "lost" ->
                 /\ results' = results
                 /\ task' = [task EXCEPT ![t] = Added(@)]
            [] OTHER ->
                 /\ results' = results
                 /\ task' = [u \in DOMAIN task |-> [task[u] EXCEPT !.pc = "crashed"]]
    /\ UNCHANGED <<parseVars, evalVars, offers, models, run>>
\* lines 195-201: add_to_result_container returns, best_e, c0 and e0 are
\* assigned. Two calls at once on one container are a data race: the write of
\* this one takes effect, or is lost, or the process dies.

NextMC ==
    \E t \in DOMAIN task :
        \/ RandomStart(t)
        \/ StartsOver(t)
        \/ Iterate(t)
        \/ RoomCheck(t)
        \/ AddBegin(t)
        \/ AddEnd(t)

SpecMC == InitMC /\ [][NextMC]_vars

\* ------------------------------------------------ claims on monte_carlo_task

InPoolSection(t) == task[t].pc \in {"add", "adding"}
\* task t has decided to add (line 193) and has not yet returned from
\* add_to_result_container (line 195)

\* C5: insertions into a shared container are serialized: no two tasks given
\* the same container are at the same time between their test of line 193 and
\* the end of their add_to_result_container.
C5_InsertionsSerialized ==
    \A t, u \in DOMAIN task :
        (t # u /\ run.pool[t] = run.pool[u]) => ~(InPoolSection(t) /\ InPoolSection(u))

\* C6: at every iteration boundary best_e is the lowest energy among the initial
\* pose and the poses accepted so far, and is never greater than the current
\* energy e0.
C6_BestEIsLowest ==
    \A t \in DOMAIN task :
        task[t].pc \in {"loop", "done"} =>
            (task[t].best_e = task[t].lowest /\ task[t].best_e <= task[t].e0)

\* C9: a task makes at most 1000 random starts and none after the first one the
\* evaluator accepts; a task whose 1000 starts were all rejected has returned
\* without a Monte Carlo iteration and without adding to its container.
C9_RandomStartsBounded ==
    \A t \in DOMAIN task :
        /\ task[t].i <= num_random_starts
        /\ task[t].starts_accepted = (IF task[t].valid_conformation THEN 1 ELSE 0)
        /\ (task[t].pc \notin {"init", "returned"}) => task[t].valid_conformation
        /\ (task[t].i = num_random_starts /\ ~task[t].valid_conformation)
              => task[t].pc \in {"init", "returned"}
        /\ task[t].pc = "returned" =>
              /\ task[t].i = num_random_starts
              /\ ~task[t].valid_conformation
              /\ task[t].mc_i = 0
              /\ task[t].accepted = 0
              /\ task[t].added = 0
              /\ (run.n = 1 => results[run.pool[t]] = <<>>)

C9_Witness ==
    \E t \in DOMAIN task : task[t].pc = "returned" /\ task[t].i = num_random_starts

SamePlace(t, u) ==
    /\ task[t].pc = task[u].pc
    /\ task[t].i = task[u].i
    /\ task[t].mc_i = task[u].mc_i
\* two tasks are at the same point of their runs

Locals(t) == [task[t] EXCEPT !.added = 0]
\* the locals of a task, without the count of what it added

RigidAtomOnFlatMaps ==
    /\ lig.num_frames = 1
    /\ lig.num_heavy_atoms = 1
    /\ lig.heavy_atoms[1].coordinate = zero3
    /\ grid = "zero"
\* a root-only ligand of one heavy atom at its local origin, in grid maps that
\* are zero everywhere

MaxRootAtoms == 2
\* heavy atoms of the ROOT frame of an input file

MaxBranchAtoms == 4
\* heavy atoms of the first BRANCH frame of an input file

MaxInnerAtoms == 2
\* heavy atoms of the second BRANCH frame of an input file

TypePatterns == {<<"C", "C">>, <<"N", "N">>, <<"C", "N">>, <<"N", "C">>}
\* the AutoDock types of the atoms with even and with odd serial numbers

Chain(pattern, first, n) ==
    [m \in 1 .. n |->
        AtomLine(first + m - 1, pattern[1 + ((first + m - 1) % 2)],
                 <<(first + m - 2) * Scale, 0, 0>>)]
\* n ATOM lines with the serial numbers from first on, 1 Angstrom apart on a line

Shapes ==
    {v \in [nr : 1 .. MaxRootAtoms, nb : 1 .. MaxBranchAtoms, ni : 0 .. MaxInnerAtoms,
            x1 : 1 .. MaxRootAtoms, y1 : 1 .. MaxBranchAtoms,
            x2 : 1 .. MaxBranchAtoms, y2 : 1 .. MaxInnerAtoms,
            nested : BOOLEAN, pattern : TypePatterns] :
        /\ v.x1 <= v.nr
        /\ v.y1 <= v.nb
        /\ IF v.ni = 0 THEN v.x2 = 1 /\ v.y2 = 1 /\ v.nested
           ELSE /\ v.y2 <= v.ni
                /\ v.x2 <= (IF v.nested THEN v.nb ELSE v.nr)}
\* a ROOT of nr atoms; a BRANCH of nb atoms from root atom x1, its rotor Y its
\* atom y1; and, when ni > 0, a BRANCH of ni atoms from atom x2 of the first
\* BRANCH (nested) or of the ROOT

File(v) ==
    LET root == <<RootLine>> \o Chain(v.pattern, 1, v.nr) \o <<RootLine>>
        first == Chain(v.pattern, v.nr + 1, v.nb)
        inner == <<BranchLine((IF v.nested THEN v.nr ELSE 0) + v.x2)>>
                     \o Chain(v.pattern, v.nr + v.nb + 1, v.ni)
                     \o <<EndBranchLine(v.nr + v.nb + v.y2)>>
    IN root \o <<BranchLine(v.x1)>> \o first
            \o (IF v.ni > 0 /\ v.nested THEN inner ELSE <<>>)
            \o <<EndBranchLine(v.nr + v.y1)>>
            \o (IF v.ni > 0 /\ ~v.nested THEN inner ELSE <<>>)
            \o <<RootLine>>
\* the lines of the input file of a shape: ROOT, ENDROOT and TORSDOF are the
\* three lines kept as they are

Files == {File(v) : v \in Shapes}

ConstructFile ==
    /\ status = "parsing"
    /\ num_lines = 0
    /\ \E input \in Files : SetPState(ParseAll(PState, input))
    /\ UNCHANGED <<open, sawEmpty, sawStray, sawOutside, readInto, evalVars, poolVars, mcVars>>
\* ligand::ligand(p) on a whole input file

NextFiles == ConstructFile

SpecFiles == InitLigand /\ [][NextFiles]_vars

\* ------------------------------------------- claims on the interacting pairs

FrameOfAtom(L, i) ==
    CHOOSE k \in 0 .. Len(L.frames) - 1 : i \in FrameRange(At(L.frames, k))
\* the frame that owns heavy atom i

WithinThreeBonds(b, i, j) ==
    \/ j \in b[i]
    \/ \E m \in b[i] : j \in b[m]
    \/ \E m \in b[i] : \E n \in b[m] : j \in b[n]
\* a path of one, two or three bonds of the bond graph b joins atoms i and j

ListedPairs(L) ==
    {<<L.interacting_pairs[n].i1, L.interacting_pairs[n].i2>> :
        n \in 1 .. Len(L.interacting_pairs)}

\* C12: every interacting pair of a constructed ligand has i1 < i2, joins atoms
\* of different frames that no path of three or fewer bonds connects, and is
\* listed once.
C12_PairsWellFormed ==
    status = "constructed" =>
        /\ \A n \in 1 .. Len(lig.interacting_pairs) :
              LET p == lig.interacting_pairs[n]
              IN /\ p.i1 < p.i2
                 /\ FrameOfAtom(lig, p.i1) # FrameOfAtom(lig, p.i2)
                 /\ ~WithinThreeBonds(Bonds(lig), p.i1, p.i2)
        /\ Cardinality(ListedPairs(lig)) = Len(lig.interacting_pairs)

C12_Witness ==
    /\ status = "constructed"
    /\ lig.num_frames = 3
    /\ Len(lig.interacting_pairs) >= 3
    /\ \E n \in 1 .. Len(lig.interacting_pairs) :
          LET p == lig.interacting_pairs[n]
          IN At(lig.frames, FrameOfAtom(lig, p.i2)).parent = FrameOfAtom(lig, p.i1)

FarPairsIn(L, b) ==
    {v \in (0 .. Len(L.heavy_atoms) - 1) \X (0 .. Len(L.heavy_atoms) - 1) :
        /\ v[1] < v[2]
        /\ FrameOfAtom(L, v[1]) # FrameOfAtom(L, v[2])
        /\ ~WithinThreeBonds(b, v[1], v[2])}

FarPairs(L) == FarPairsIn(L, Bonds(L))
\* the pairs of heavy atoms of different frames at a bond distance of 4 or more

OnJointAxis(L, i1, i2) ==
    LET f2 == At(L.frames, FrameOfAtom(L, i2))
    IN f2.parent = FrameOfAtom(L, i1) /\ (i1 = f2.rotorX \/ i2 = f2.rotorY)
\* i2 is in a frame whose parent frame holds i1, and i1 is that frame's rotor X
\* or i2 its rotor Y

\* C13: the interacting pairs of a constructed ligand are exactly the pairs of
\* heavy atoms i1 < i2 of different frames at a bond distance of 4 or more.
C13_ExactlyTheFarPairs ==
    status = "constructed" => ListedPairs(lig) = FarPairs(lig)

\* C13, amended: the interacting pairs are exactly those pairs except, for each
\* frame and its parent frame, the pairs of the frame's rotor X with an atom of
\* the frame and of the frame's rotor Y with an atom of the parent frame.
C13_FarPairsOffTheAxis ==
    status = "constructed" =>
        ListedPairs(lig) = {v \in FarPairs(lig) : ~OnJointAxis(lig, v[1], v[2])}

C13_Witness ==
    /\ status = "constructed"
    /\ \E v \in FarPairs(lig) : OnJointAxis(lig, v[1], v[2])
    /\ \E v \in FarPairs(lig) : ~OnJointAxis(lig, v[1], v[2])

\* ------------------------------------------------- claims on the frame vector

\* C14: after any prefix of the input lines the frames are in topological
\* order: the root frame is its own parent, and the parent of every other frame
\* k is a frame with a smaller index.
C14_ParentsPrecede ==
    /\ At(lig.frames, 0).parent = 0
    /\ \A k \in 1 .. Len(lig.frames) - 1 :
          At(lig.frames, k).parent >= 0 /\ At(lig.frames, k).parent < k

C14_Witness ==
    /\ Len(lig.frames) = 3
    /\ At(lig.frames, 2).parent = 1
    /\ At(lig.frames, 1).rotorX = 0
    /\ At(lig.frames, 2).rotorX = 1
    /\ Len(lig.heavy_atoms) = 2
    /\ current = 2

ActiveFrames(L) == {k \in 1 .. Len(L.frames) - 1 : At(L.frames, k).active}
\* the frames other than the root whose active flag is set

\* C15: a constructed ligand (here: one constructed without any read outside
\* its vectors) has num_active_torsions <= num_frames - 1, and
\* num_active_torsions is the number of its non-root frames that are active.
C15_ActiveTorsionsCounted ==
    (status = "constructed" /\ ~ReadsOutside(lig)) =>
        /\ lig.num_active_torsions <= lig.num_frames - 1
        /\ lig.num_active_torsions = Cardinality(ActiveFrames(lig))

\* ------------------------------------------------------ claims on the donors

OwnerWhileParsing(frames, i) ==
    CHOOSE k \in 0 .. Len(frames) - 1 :
        /\ At(frames, k).habegin <= i
        /\ \A m \in k + 1 .. Len(frames) - 1 : At(frames, m).habegin > i
\* the frame that heavy atom i was read into: the last frame that begins at or
\* before it

NewDonors ==
    {i \in 0 .. Len(lig.heavy_atoms) - 1 :
        ~At(lig.heavy_atoms, i).donor /\ At(lig'.heavy_atoms, i).donor}
\* the heavy atoms that a step marks as donors

PolarHydrogenRead ==
    /\ Len(lig'.hydrogens) = Len(lig.hydrogens) + 1
    /\ lig'.hydrogens[Len(lig'.hydrogens)].ad = "HD"
\* the step reads an ATOM line of a polar hydrogen

BondedHetero(h, i) ==
    is_hetero(At(lig.heavy_atoms, i)) /\ is_neighbor(h, At(lig.heavy_atoms, i))

\* C16: a line of a polar hydrogen marks as donor at most one heavy atom, the
\* last-read hetero atom of the current frame within covalent-bond distance of
\* the hydrogen, and marks it if there is one; it marks no atom of another
\* frame, and no other line marks a donor (here: while no serial search has read
\* past the end of numbers).
C16_DonorIsBondedHeteroOfFrame ==
    [][~sawOutside' =>
       /\ Cardinality(NewDonors) <= 1
       /\ NewDonors # {} => PolarHydrogenRead
       /\ PolarHydrogenRead =>
             LET h == lig'.hydrogens[Len(lig'.hydrogens)]
                 mine == {i \in 0 .. Len(lig.heavy_atoms) - 1 :
                             OwnerWhileParsing(lig.frames, i) = current}
             IN /\ \A i \in NewDonors :
                      /\ i \in mine
                      /\ BondedHetero(h, i)
                      /\ \A j \in mine : j > i => ~BondedHetero(h, j)
                /\ \A i \in mine :
                      (BondedHetero(h, i) /\ \A j \in mine : j > i => ~BondedHetero(h, j))
                          => At(lig'.heavy_atoms, i).donor]_vars

\* ---------------------------------------- claims on the poses a task adopts

Evaluated(c) == evaluate(lig, c, grid, EUpperBound(lig), change(lig.num_active_torsions))
\* what the evaluator returns for a conformation under the task's e_upper_bound

IterationRejected(t) ==
    /\ task'[t].mc_i = task[t].mc_i + 1
    /\ task'[t].accepted = task[t].accepted
\* the step ends an iteration of task t that the Metropolis criterion rejected

IterationDone(t) == task[t].pc \in {"room", "add", "adding", "loop", "done"} /\ task[t].num_mutations > 0
\* task t has been through the BFGS loop of an iteration at least once

TrialRefused(me, k) ==
    LET pg1 == DotN(me.p, Flat(me.g1))
        ev == evaluate(lig, LineStep(lig, me.c1, me.p, k), grid, ArmijoBound(me.e1, pg1, k),
                       change(lig.num_active_torsions))
    IN ~(ev.ok /\ 10 * DotN(me.p, Flat(ev.g)) >= 9 * pg1)
\* lines 143-151 for the final c1 and direction: alpha = 10^-k is not appropriate

\* C18: every step the line search of the BFGS loop accepts strictly lowers the
\* energy, its directional derivative pg1 being at most 0, so the e1 that reaches
\* the Metropolis criterion is at most the energy of the mutated pose; the steps
\* chain from the mutated pose; the loop is left only when every one of the
\* num_alphas step sizes is refused, and c1, e1, f1, g1 are then those of the
\* last accepted step.
C18_AcceptedStepsDescend ==
    \A t \in DOMAIN task : IterationDone(t) =>
        LET me == task[t]
            n == Len(me.path)
        IN /\ \A s \in 1 .. n :
                  /\ me.path[s].e2 < me.path[s].e1
                  /\ me.path[s].pg1 <= 0
                  /\ me.path[s].e1 = (IF s = 1 THEN me.mutated_e ELSE me.path[s - 1].e2)
           /\ me.e1 <= me.mutated_e
           /\ n > 0 => /\ me.c1 = me.path[n].c2
                       /\ me.e1 = me.path[n].e2
                       /\ me.f1 = me.path[n].f2
                       /\ me.g1 = me.path[n].g2
           /\ n = 0 => me.e1 = me.mutated_e
           /\ me.p = <<>> \/ \A k \in 1 .. num_alphas : TrialRefused(me, k)

C18_Witness ==
    \E t \in DOMAIN task :
        /\ IterationDone(t)
        /\ Len(task[t].path) >= 2
        /\ task[t].p # <<>>
        /\ task[t].e1 < task[t].mutated_e

\* ------------------------------------------------- write_models, by call

S(n, ad, x, y, z) == ShortAtomLine(n, ad, <<x * Scale, y * Scale, z * Scale>>)
\* an ATOM line that ends in column 78

WritableFiles ==
    {<<RootLine, l1, A(2, "HD", 1, 0, 0), BranchLine(1), l3, A(4, "C", -2, 0, 0),
       EndBranchLine(3)>> :
        l1 \in {A(1, "N", 0, 0, 0), S(1, "N", 0, 0, 0)},
        l3 \in {A(3, "C", -1, 0, 0), S(3, "C", -1, 0, 0)}}
\* a donor nitrogen with its polar hydrogen and a branch of two carbons; each
\* line with a one-character type either padded to column 79 or ending in 78

InitWrite ==
    /\ \E input \in WritableFiles : ParserDone(input)
    /\ EvalIdle
    /\ results = <<(<<>>)>>
    /\ offers = <<>>
    /\ models = <<>>
    /\ McIdle

Dock ==
    /\ models = <<>>
    /\ Len(offers) < MaxOffers
    /\ \E e \in {-2 * Scale, -Scale}, position \in {zero3, <<2 * Scale, Scale, 0>>},
          orientation \in {q \in Orientations : q[3] = 0 /\ q[4] = 0},
          torsions \in Torsions(lig.num_active_torsions) :
          LET r == compose_result(lig, e, e, conformation(position, orientation, torsions))
          IN /\ results' = [results EXCEPT ![1] =
                               add_to_result_container(@, r, RequiredSquareError(lig))]
             /\ offers' = Append(offers, r)
    /\ UNCHANGED <<parseVars, evalVars, models, mcVars>>
\* a docked pose reaches the container that write_models is given

WriteModels ==
    /\ models = <<>>
    /\ \E num_conformations \in 1 .. Len(results[1]) :
          models' = write_models(lig, results[1], num_conformations)
    /\ UNCHANGED <<parseVars, evalVars, results, offers, mcVars>>
\* lig.write_models(output_ligand, results, num_conformations)

NextWrite == Dock \/ WriteModels

SpecWrite == InitWrite /\ [][NextWrite]_vars

IsAtomLine(line) == line.kind = "ATOM"

Rank(lines, j, hydrogen) ==
    Cardinality({m \in 1 .. j - 1 :
        IsAtomLine(lines[m]) /\ is_hydrogen(lines[m]) = hydrogen})
\* how many ATOM/HETATM lines of the same sort, hydrogen or heavy, precede line j

\* C19: each model written by write_models holds the preserved lines in input
\* order; every preserved ATOM/HETATM line, also one that ends with a
\* one-character type in column 78, carries the coordinates of the result: the
\* i-th heavy-atom line heavy_atoms[i], the j-th hydrogen line hydrogens[j]; the
\* model consumes exactly num_heavy_atoms heavy and num_hydrogens hydrogen
\* coordinates; every other preserved line is written unchanged.
C19_EveryAtomLineRewritten ==
    \A i \in 1 .. Len(models) :
        LET r == results[1][i]
            w == models[i].lines
        IN /\ Len(w) = Len(lig.lines)
           /\ models[i].heavy_atom = lig.num_heavy_atoms
           /\ models[i].hydrogen = lig.num_hydrogens
           /\ \A j \in 1 .. Len(lig.lines) :
                 LET line == lig.lines[j]
                 IN /\ w[j].kind = line.kind /\ w[j].n = line.n /\ w[j].ad = line.ad
                    /\ w[j].size = line.size
                    /\ w[j].xyz =
                          IF ~IsAtomLine(line) THEN Fixed3(line.coordinate)
                          ELSE IF is_hydrogen(line)
                          THEN Fixed3(r.hydrogens[Rank(lig.lines, j, TRUE) + 1])
                          ELSE Fixed3(r.heavy_atoms[Rank(lig.lines, j, FALSE) + 1])

\* ------------------------------------------- claims on the torsion indices

StrayEndBranch == <<RootLine, A(1, "C", 0, 0, 0), A(2, "N", 1, 0, 0), EndBranchLine(1)>>
\* two ROOT atoms and an ENDBRANCH line that no BRANCH line opened

InitTorsions ==
    /\ \E input \in Ligands \cup {StrayEndBranch} : ParserDone(input)
    /\ grid \in GridNames
    /\ e_upper_bound = 4 * Scale * lig.num_heavy_atoms
    /\ \E position \in Positions, orientation \in Orientations,
          torsions \in Torsions(lig.num_active_torsions) :
            conf = conformation(position, orientation, torsions)
    /\ out = NoCall
    /\ PoolIdle
    /\ McIdle

SpecTorsions == InitTorsions /\ [][NextEvaluate]_vars

ActiveBelow(L, k) == Cardinality({j \in 1 .. k - 1 : At(L.frames, j).active})
\* the active non-root frames with an index below k

IndexedByRank(L, used) ==
    /\ \A k \in 1 .. L.num_frames - 1 :
          At(L.frames, k).active =>
              Cardinality({n \in 1 .. Len(used) : used[n][1] = k}) = 1
    /\ \A n \in 1 .. Len(used) :
          /\ used[n][1] \in 1 .. L.num_frames - 1
          /\ At(L.frames, used[n][1]).active
          /\ used[n][2] = ActiveBelow(L, used[n][1])
          /\ used[n][2] \in 0 .. L.num_active_torsions - 1
\* a pass uses one index for each active non-root frame and for no other frame:
\* the number of active frames below it, which lies in [0, num_active_torsions)

\* C20: for every active non-root frame k the torsion index read in the forward
\* pass of evaluate, the gradient index written in its reverse pass and the
\* torsion index read in compose_result are the number of active non-root
\* frames below k; an evaluation that returns true writes each of the
\* num_active_torsions gradient slots exactly once, and no pass uses an index
\* outside [0, num_active_torsions).
C20_TorsionIndicesAgree ==
    out.ok =>
        /\ IndexedByRank(lig, out.read_torsions)
        /\ IndexedByRank(lig, out.written)
        /\ IndexedByRank(lig, ComposePose(lig, conf).read_torsions)
        /\ \A t \in 0 .. lig.num_active_torsions - 1 :
              Cardinality({n \in 1 .. Len(out.written) : out.written[n][2] = t}) = 1

\* ------------------------------------------------- claims on the frames' atoms

HasChild(L, k) == \E j \in 1 .. Len(L.frames) - 1 : At(L.frames, j).parent = k
\* some BRANCH frame was created while frame k was the current frame

\* C21: in a constructed ligand a non-root frame is inactive exactly when it owns
\* one heavy atom and has no child frame; an inactive frame has
\* habegin + 1 = haend and habegin = rotorY, as evaluate asserts; and the parent
\* of every non-root frame is active (here: for ligands built without a read
\* outside the vectors).
C21_InactiveIsLoneAtomLeaf ==
    (status = "constructed" /\ ~sawOutside /\ ~ReadsOutside(lig)) =>
        \A k \in 1 .. lig.num_frames - 1 :
            LET f == At(lig.frames, k)
            IN /\ (~f.active) <=> (f.habegin + 1 = f.haend /\ ~HasChild(lig, k))
               /\ (~f.active) => (f.habegin + 1 = f.haend /\ f.habegin = f.rotorY)
               /\ At(lig.frames, f.parent).active

InRangeOf(f, r) ==
    IF r.hydrogen THEN f.hybegin <= r.i /\ r.i < f.hyend
    ELSE f.habegin <= r.i /\ r.i < f.haend
\* the stored atom r lies in the [begin, end) range of frame f

\* C23: whenever an ATOM/HETATM line stores an atom, the current frame is the
\* most recently created frame, also after an ENDBRANCH; and in the constructed
\* ligand every heavy atom and every hydrogen lies in the [begin, end) range of
\* the frame that was current when its line was read (here: while no serial
\* search has read past the end of numbers).
C23_AtomsInTheCurrentFrame ==
    ~sawOutside =>
        /\ \A n \in 1 .. Len(readInto) : readInto[n].current = readInto[n].last
        /\ (status = "constructed" /\ ~ReadsOutside(lig)) =>
               \A n \in 1 .. Len(readInto) :
                   InRangeOf(At(lig.frames, readInto[n].current), readInto[n])

\* C22: the serial searches at BRANCH and ENDBRANCH never run past the end of
\* the vector, and in every constructed ligand, for every frame k > 0, rotorX is
\* the index of a heavy atom of the parent frame and rotorY the index of a heavy
\* atom of frame k itself.
C22_RotorsInTheirFrames ==
    /\ ~sawOutside
    /\ status = "constructed" =>
          \A k \in 1 .. lig.num_frames - 1 :
              LET f == At(lig.frames, k)
                  parent == At(lig.frames, f.parent)
              IN /\ parent.habegin <= f.rotorX /\ f.rotorX < parent.haend
                 /\ f.habegin <= f.rotorY /\ f.rotorY < f.haend

=============================================================================
